---- MODULE Spec2Model ----
(***************************************************************************)
(* Position-preserving redaction pipeline of legal-masking-tool.           *)
(*                                                                         *)
(* Characters are modelled as strings that name one character each         *)
(* ("Kabu" is U+682A, "FA" is the fullwidth letter A, "sp" a space ...);   *)
(* a text is a sequence of characters, offsets are 0-based as in the       *)
(* source, ranges are half-open.  Scores are integer percentages           *)
(* (0.85 is 85).                                                           *)
(***************************************************************************)
EXTENDS Integers, Sequences, FiniteSets, TLC

VARIABLES
    text,              \* CanonicalText handed to mask_text_with_report
    policy,            \* MaskingEngine.policy (the parts the engine reads)
    nlp_available,     \* MaskingEngine.nlp_available
    analyzer_results,  \* what the detector returns for `text`, in its order
    runtime,           \* MaskingEngine.runtime (RuntimeOverrides)
    pc,                \* position of the caller: "idle" | "configured" | "done"
    report,            \* result of the last mask_text_with_report, or NoReport
    label_state,       \* StableIdState the last run ended with
    prev_counters,     \* counters of the StableIdState of the run before the last
    doc,               \* the document extract_docx_segments opened
    seg_pos,           \* how many containers of `doc` it has visited
    segments,          \* extract_docx_segments: segments
    buf,               \* extract_docx_segments: buf
    cur,               \* extract_docx_segments: cur
    idx,               \* extract_docx_segments: idx
    full_text,         \* extract_docx_segments: full_text, once joined
    seg_pc,            \* "extract" | "returned"
    para0,             \* the runs of the paragraph as passed to the splicer
    repls,             \* the replacements as passed to the splicer
    para,              \* the paragraph's w:r elements, in document order
    runs,              \* _apply_replacements_to_runs: runs (a Python list)
    pending,           \* replacements the loop has still to apply
    splice_pc,         \* "call" | "loop" | "returned"
    chars,             \* process_pdf_file: chars (one CharInfo per character)
    q_start,           \* _get_quads_for_span: start of the last call
    q_end,             \* _get_quads_for_span: end of the last call
    page_rects,        \* _get_quads_for_span: what the last call returned
    pdf_conf,          \* policy["pdf"]: max_rects_per_term, min_term_length
    pdf_hits,          \* report["hits"] as process_pdf_file leaves them
    hit_pos,           \* how many hits the redaction loop has gone through
    annots,            \* per hit, the number of redaction rectangles submitted
    stats,             \* process_pdf_file: stats
    pdf_pc,            \* "closed" | "quads" | "opened" | "loop" | "saved" | "raised"
    doc_open,          \* process_pdf_file: doc is open (fitz.open .. doc.close)
    big_text,          \* _analyze_chunked / _split_into_chunks: text
    chunk_size,        \* nlp_chunk_size
    overlap,           \* nlp_chunk_overlap
    chunks,            \* the windows _split_into_chunks returned
    window,            \* how many windows _analyze_chunked has gone through
    detector_log,      \* per window, what the two detectors did
    all_results,       \* _analyze_chunked: all_results
    deduped,           \* _analyze_chunked: what it returned
    chunk_pc,          \* "off" | "loop" | "split" | "windows" | "returned"
    split_pos,         \* _split_into_chunks: pos
    ui,                \* MaskingApp: the detection list and use_blackout
    wpc,               \* per worker thread, where it is in worker()
    installed,         \* per worker, what it wrote to the engine
    seen,              \* per worker, what its mask_text_with_report read
    docx_hits,         \* report["hits"] as process_docx_file leaves them
    docx_pos,          \* how many hits its loop has gone through
    docx_maps,         \* process_docx_file: docx_maps
    docx_pc,           \* "off" | "opened" | "loop" | "written"
    cell0,             \* the paragraphs of the cell as passed to the cell splicer
    cell,              \* the paragraphs of the cell, each the list of its runs
    cell_repls,        \* _apply_replacements_to_cell: replacements
    cell_pending,      \* replacements its loop has still to apply
    cell_pc,           \* "off" | "call" | "loop" | "returned"
    iter_pos,          \* _iter_segments_same_doc: containers it has gone past
    iter_idx,          \* its counter idx
    iter_out,          \* what it has yielded
    iter_pc,           \* "off" | "iterate" | "exhausted"
    payload            \* process_file: what build_review_payload returned

maskVars == <<text, policy, nlp_available, analyzer_results, runtime, pc,
              report, label_state, prev_counters>>

segVars == <<doc, seg_pos, segments, buf, cur, idx, full_text, seg_pc>>

spliceVars == <<para0, repls, para, runs, pending, splice_pc>>

pdfVars == <<chars, q_start, q_end, page_rects, pdf_conf, pdf_hits, hit_pos,
             annots, stats, pdf_pc, doc_open>>

chunkVars == <<big_text, chunk_size, overlap, chunks, window, detector_log,
               all_results, deduped, chunk_pc, split_pos>>

guiVars == <<ui, wpc, installed, seen>>

docxVars == <<docx_hits, docx_pos, docx_maps, docx_pc>>

cellVars == <<cell0, cell, cell_repls, cell_pending, cell_pc>>

iterVars == <<iter_pos, iter_idx, iter_out, iter_pc>>

vars == <<maskVars, segVars, spliceVars, pdfVars, chunkVars, guiVars, docxVars,
          cellVars, iterVars, payload>>

\* Parts of the pipeline that are not running.
NoDoc == [sections |-> <<>>, paragraphs |-> <<>>, cells |-> <<>>]

SegmentsIdle ==
    /\ doc = NoDoc /\ seg_pos = 0 /\ segments = <<>> /\ buf = <<>>
    /\ cur = 0 /\ idx = 0 /\ full_text = <<>> /\ seg_pc = "returned"

SpliceIdle ==
    /\ para0 = <<>> /\ repls = <<>> /\ para = <<>> /\ runs = <<>>
    /\ pending = <<>> /\ splice_pc = "returned"

MaskIdle ==
    /\ text = <<>> /\ policy = <<>> /\ nlp_available = FALSE
    /\ analyzer_results = <<>> /\ runtime = <<>> /\ pc = "off"
    /\ report = <<>> /\ label_state = <<>> /\ prev_counters = <<>>

PdfIdle ==
    /\ chars = <<>> /\ q_start = 0 /\ q_end = 0 /\ page_rects = <<>>
    /\ pdf_conf = <<>> /\ pdf_hits = <<>> /\ hit_pos = 0 /\ annots = <<>>
    /\ stats = <<>> /\ pdf_pc = "closed" /\ doc_open = FALSE

ChunksIdle ==
    /\ big_text = <<>> /\ chunk_size = 0 /\ overlap = 0 /\ chunks = <<>>
    /\ window = 0 /\ detector_log = <<>> /\ all_results = <<>>
    /\ deduped = <<>> /\ chunk_pc = "off" /\ split_pos = 0

GuiIdle == ui = <<>> /\ wpc = <<>> /\ installed = <<>> /\ seen = <<>>

DocxIdle ==
    docx_hits = <<>> /\ docx_pos = 0 /\ docx_maps = <<>> /\ docx_pc = "off"

CellIdle ==
    /\ cell0 = <<>> /\ cell = <<>> /\ cell_repls = <<>>
    /\ cell_pending = <<>> /\ cell_pc = "off"

IterIdle ==
    iter_pos = 0 /\ iter_idx = 0 /\ iter_out = <<>> /\ iter_pc = "off"

\* No review payload has been built.
NoPayload ==
    [built |-> FALSE, spans |-> <<>>, review_items |-> <<>>,
     summary |-> [total_hits |-> 0, review_hits |-> 0]]

PayloadIdle == payload = NoPayload

\* Each part runs while the others rest.
OnlyMaskRuns == SegmentsIdle /\ SpliceIdle /\ PdfIdle /\ ChunksIdle /\ GuiIdle /\ DocxIdle /\ CellIdle /\ IterIdle /\ PayloadIdle

OnlySegmentsRun == MaskIdle /\ SpliceIdle /\ PdfIdle /\ ChunksIdle /\ GuiIdle /\ DocxIdle /\ CellIdle /\ IterIdle /\ PayloadIdle

OnlySpliceRuns == MaskIdle /\ SegmentsIdle /\ PdfIdle /\ ChunksIdle /\ GuiIdle /\ DocxIdle /\ CellIdle /\ IterIdle /\ PayloadIdle

OnlyQuadsRun == MaskIdle /\ SegmentsIdle /\ SpliceIdle /\ ChunksIdle /\ GuiIdle /\ DocxIdle /\ CellIdle /\ IterIdle /\ PayloadIdle

OnlyPdfRuns == SegmentsIdle /\ SpliceIdle /\ ChunksIdle /\ GuiIdle /\ DocxIdle /\ CellIdle /\ IterIdle /\ PayloadIdle

OnlyChunksRun == MaskIdle /\ SegmentsIdle /\ SpliceIdle /\ PdfIdle /\ GuiIdle /\ DocxIdle /\ CellIdle /\ IterIdle /\ PayloadIdle

OnlyMaskChanges == UNCHANGED <<segVars, spliceVars, pdfVars, chunkVars, guiVars, docxVars, cellVars, iterVars, payload>>

OnlySegmentsChange == UNCHANGED <<maskVars, spliceVars, pdfVars, chunkVars, guiVars, docxVars, cellVars, iterVars, payload>>

OnlySpliceChanges == UNCHANGED <<maskVars, segVars, pdfVars, chunkVars, guiVars, docxVars, cellVars, iterVars, payload>>

OnlyQuadsChange == UNCHANGED <<maskVars, segVars, spliceVars, chunkVars, guiVars, docxVars, cellVars, iterVars, payload>>

OnlyPdfChanges == UNCHANGED <<segVars, spliceVars, chunkVars, guiVars, docxVars, cellVars, iterVars, payload>>

OnlyGuiRuns == SegmentsIdle /\ SpliceIdle /\ PdfIdle /\ ChunksIdle /\ DocxIdle /\ CellIdle /\ IterIdle /\ PayloadIdle

OnlyChunksChange == UNCHANGED <<maskVars, segVars, spliceVars, pdfVars, guiVars, docxVars, cellVars, iterVars, payload>>

OnlyGuiChanges == UNCHANGED <<segVars, spliceVars, pdfVars, chunkVars, docxVars, cellVars, iterVars, payload>>

-----------------------------------------------------------------------------
(* Generic helpers: Python slicing, tuple comparison, stable sort.         *)

Min(a, b) == IF a < b THEN a ELSE b
Max(a, b) == IF a > b THEN a ELSE b

\* s[a:b] of Python for 0 <= a (clamped at len(s)).
Slice(s, a, b) ==
    LET hi == Min(b, Len(s))
    IN  IF a >= hi THEN <<>> ELSE SubSeq(s, a + 1, hi)

\* Lexicographic < on tuples of integers of equal length.
RECURSIVE TupleLess(_, _)
TupleLess(a, b) ==
    IF a = <<>> \/ b = <<>> THEN FALSE
    ELSE IF Head(a) < Head(b) THEN TRUE
    ELSE IF Head(a) > Head(b) THEN FALSE
    ELSE TupleLess(Tail(a), Tail(b))

\* sorted(xs, key=Key): stable, ascending.  x is placed before the first
\* element whose key is strictly greater.
InsertByKey(sorted, x, Key(_)) ==
    LET later == {j \in 1..Len(sorted) : TupleLess(Key(x), Key(sorted[j]))}
        at    == IF later = {} THEN Len(sorted) + 1
                 ELSE CHOOSE j \in later : \A k \in later : j <= k
    IN  SubSeq(sorted, 1, at - 1) \o <<x>> \o SubSeq(sorted, at, Len(sorted))

SortedByKey(xs, Key(_)) ==
    LET f[i \in 0..Len(xs)] ==
            IF i = 0 THEN <<>> ELSE InsertByKey(f[i - 1], xs[i], Key)
    IN  f[Len(xs)]

RECURSIVE Repeat(_, _)
Repeat(c, n) == IF n <= 0 THEN <<>> ELSE <<c>> \o Repeat(c, n - 1)

RECURSIVE Concat(_)
Concat(parts) == IF parts = <<>> THEN <<>> ELSE Head(parts) \o Concat(Tail(parts))

Range(s) == {s[i] : i \in 1..Len(s)}

-----------------------------------------------------------------------------
(* engine/normalize.py                                                     *)

Whitespace == {"sp", "tab", "cr", "nl", "isp"}

\* unicodedata.normalize("NFKC", .) on the characters of the model: the
\* fullwidth forms fold to their ASCII counterparts, the ideographic space
\* to a space.
NfkcChar(c) ==
    CASE c = "FA"  -> "A"
      [] c = "FB"  -> "B"
      [] c = "FLP" -> "("
      [] c = "FRP" -> ")"
      [] c = "isp" -> "sp"
      [] OTHER     -> c

nfkc(s) == [i \in 1..Len(s) |-> NfkcChar(s[i])]

\* _WS_RE.sub(" ", s): every maximal run of whitespace becomes one space.
RECURSIVE CollapseWs(_)
CollapseWs(s) ==
    IF s = <<>> THEN <<>>
    ELSE IF Head(s) \in Whitespace
         THEN IF Len(s) > 1 /\ s[2] \in Whitespace
              THEN CollapseWs(Tail(s))
              ELSE <<"sp">> \o CollapseWs(Tail(s))
         ELSE <<Head(s)>> \o CollapseWs(Tail(s))

RECURSIVE LStrip(_)
LStrip(s) == IF s # <<>> /\ Head(s) \in Whitespace THEN LStrip(Tail(s)) ELSE s

RECURSIVE RStrip(_)
RStrip(s) ==
    IF s # <<>> /\ s[Len(s)] \in Whitespace
    THEN RStrip(SubSeq(s, 1, Len(s) - 1)) ELSE s

Strip(s) == RStrip(LStrip(s))

normalize_term(s) == Strip(CollapseWs(nfkc(s)))

-----------------------------------------------------------------------------
(* engine/text_rules.py                                                    *)

\* MONEY_CTX_WORDS, one sequence of characters per word.
MONEY_CTX_WORDS ==
    { <<"Yen">>, <<"YenSign">>, <<"FYenSign">>,
      <<"Zei", "Komi">>, <<"Zei", "Nuki">>, <<"Gou", "Kei">>, <<"Sou", "Gaku">>,
      <<"Tai", "Ka">>, <<"Hou", "Shuu">>, <<"Tan", "Ka">>, <<"Kin", "Gaku">>,
      <<"Shi", "Harai">>, <<"Sei", "Kyuu">>, <<"Nyuu", "Kin">>, <<"Furi", "Komi">>,
      <<"Bai", "Bai", "Dai", "Kin">>, <<"I", "Taku", "Ryou">>,
      <<"Ri", "You", "Ryou">>, <<"Ryou", "Kin">> }

\* w in ctx
Contains(ctx, w) ==
    \E i \in 0..(Len(ctx) - Len(w)) : Slice(ctx, i, i + Len(w)) = w

MoneyWindow == 12

has_money_context(t, start, end) ==
    LET s   == Max(0, start - MoneyWindow)
        e   == Min(Len(t), end + MoneyWindow)
        ctx == Slice(t, s, e)
    IN  \E w \in MONEY_CTX_WORDS : Contains(ctx, w)

in_list(term, allowlist) ==
    LET t == normalize_term(term)
    IN  IF t = <<>> THEN FALSE
        ELSE \E i \in 1..Len(allowlist) : t = normalize_term(allowlist[i])

-----------------------------------------------------------------------------
(* engine/stable_id.py                                                     *)

Digit == <<"0", "1", "2", "3", "4", "5", "6", "7", "8", "9">>

\* "{n:02d}" for n < 100
TwoDigits(n) == <<Digit[(n \div 10) + 1], Digit[(n % 10) + 1]>>

\* The default template f"[{entity}_{{n:02d}}]"; the entity name stands for
\* its characters.
DefaultFormat(entity) == <<"[", entity, "_", "{n:02d}", "]">>

\* fmt.format(n=n)
Format(fmt, n) ==
    Concat([i \in 1..Len(fmt) |->
               IF fmt[i] = "{n:02d}" THEN TwoDigits(n) ELSE <<fmt[i]>>])

\* An engine that keeps one StableIdState for all its runs.
StableIdState_shared == label_state

\* StableIdState.create(): empty counters, empty mapping.
StableIdState_create == [counters |-> <<>>, mapping |-> <<>>]

\* dict.get(key, default) on a function used as a dict
DictGet(d, k, default) == IF k \in DOMAIN d THEN d[k] ELSE default

DictSet(d, k, v) == [x \in (DOMAIN d) \cup {k} |-> IF x = k THEN v ELSE d[x]]

\* A get_label keyed by the original as written, not normalised.
get_label_by_raw_original(st, entity, original, label_format) ==
    LET key == <<entity, original>>
    IN  IF key \in DOMAIN st.mapping
        THEN [label |-> st.mapping[key], state |-> st]
        ELSE LET n     == DictGet(st.counters, entity, 0) + 1
                 fmt   == DictGet(label_format, entity, DefaultFormat(entity))
                 label == Format(fmt, n)
             IN  [label |-> label,
                  state |-> [counters |-> DictSet(st.counters, entity, n),
                             mapping  |-> DictSet(st.mapping, key, label)]]

\* StableIdState.get_label: the label and the state after the call.
get_label(st, entity, original, label_format) ==
    LET key == <<entity, normalize_term(original)>>
    IN  IF key \in DOMAIN st.mapping
        THEN [label |-> st.mapping[key], state |-> st]
        ELSE LET n     == DictGet(st.counters, entity, 0) + 1
                 fmt   == DictGet(label_format, entity, DefaultFormat(entity))
                 label == Format(fmt, n)
             IN  [label |-> label,
                  state |-> [counters |-> DictSet(st.counters, entity, n),
                             mapping  |-> DictSet(st.mapping, key, label)]]

-----------------------------------------------------------------------------
(* engine/party_extractor.py: the labels extract_parties_full always adds  *)
(* to the allowlist (the texts of the model hold no party definition and   *)
(* none of the STRUCTURAL_TERMS, which are left out).                      *)

TRADITIONAL_LABELS ==
    << <<"Kou">>, <<"Otsu">>, <<"Hei">>, <<"Tei">>, <<"Bo">>,
       <<"Ki">>, <<"Kou2">>, <<"Shin">>, <<"Jin">>, <<"Ki2">> >>

-----------------------------------------------------------------------------
(* engine/masking_engine.py                                                *)

BLACK_CHAR == "BLACK"

NoLabel == <<>>

\* _normalize_forced_masks: keep the entries with 0 <= start < end.
normalize_forced_masks(forced_masks) ==
    LET ok(fm) == 0 <= fm.start /\ fm.start < fm.end
        kept   == SelectSeq(forced_masks, ok)
    IN  [i \in 1..Len(kept) |->
            [start |-> kept[i].start, end |-> kept[i].end,
             entity_type |-> kept[i].entity_type,
             label |-> kept[i].label,
             reason |-> "forced:mask_once"]]

\* MaskingEngine.set_runtime_overrides: the new RuntimeOverrides.
RuntimeOverrides(once_allowlist, forced_masks, keep_spans) ==
    LET ok(x) == 0 <= x.start /\ x.start < x.end
    IN  [once_allowlist |-> once_allowlist,
         forced_masks   |-> forced_masks,
         keep_spans     |-> SelectSeq(keep_spans, ok)]

entity_priority(pol, entity) == DictGet(pol.entity_priority, entity, 0)

\* A rank that lets the longer span win before the entity priority is
\* looked at.
MergeRank_length_first(pol, r) ==
    << -(r.end - r.start), -entity_priority(pol, r.entity_type), -r.score >>

\* The (prio, length, score) triple _merge_overlaps compares, negated so
\* that "better" is smaller.
MergeRank(pol, r) ==
    << -entity_priority(pol, r.entity_type), -(r.end - r.start), -r.score >>

\* The greedy sweep shared by _merge_overlaps and the resolver: a candidate
\* that starts before the end of the last accepted one replaces it when
\* Better(c, prev), and is dropped otherwise.
Sweep(cands, Better(_, _)) ==
    LET f[i \in 0..Len(cands)] ==
            IF i = 0 THEN <<>>
            ELSE LET acc == f[i - 1]
                     c   == cands[i]
                 IN  IF acc = <<>> THEN <<c>>
                     ELSE LET prev == acc[Len(acc)]
                          IN  IF c.start < prev.end
                              THEN IF Better(c, prev)
                                   THEN [acc EXCEPT ![Len(acc)] = c]
                                   ELSE acc
                              ELSE Append(acc, c)
    IN  f[Len(cands)]

\* MaskingEngine._merge_overlaps
merge_overlaps(pol, results) ==
    LET SortKey(r)   == <<r.start, -(r.end - r.start)>>
        Better(c, p) == TupleLess(MergeRank(pol, c), MergeRank(pol, p))
    IN  Sweep(SortedByKey(results, SortKey), Better)

\* FastRegexAnalyzer.analyze / analyzer.analyze: the detector's results for
\* the text without those whose text is in allow_list, the fast analyzer's
\* sorted by (start, -length).
DetectorOutput(t, results, allow_list) ==
    LET keep(r) == Slice(t, r.start, r.end) \notin Range(allow_list)
    IN  SelectSeq(results, keep)

fast_analyze(t, results, allow_list) ==
    LET SortKey(r) == <<r.start, -(r.end - r.start)>>
    IN  SortedByKey(DetectorOutput(t, results, allow_list), SortKey)

AsCandidate(r) ==
    [start |-> r.start, end |-> r.end, entity_type |-> r.entity_type,
     score |-> r.score, source |-> "analyzer", label |-> NoLabel,
     forced_reason |-> ""]

ForcedCandidate(fm) ==
    [start |-> fm.start, end |-> fm.end, entity_type |-> fm.entity_type,
     score |-> 100, source |-> "forced", label |-> fm.label,
     forced_reason |-> fm.reason]

\* The key of the earlier resolver the source comments on, which let the
\* longer span win before the entity priority was looked at.
cand_key_length_first(pol, x) ==
    << IF x.source = "forced" THEN 0 ELSE 1,
       -(x.end - x.start),
       -entity_priority(pol, x.entity_type),
       -x.score >>

\* A key that does not tell forced candidates from detected ones.
cand_key_without_source(pol, x) ==
    << 1,
       -entity_priority(pol, x.entity_type),
       -(x.end - x.start),
       -x.score >>

\* _cand_key
cand_key(pol, x) ==
    << IF x.source = "forced" THEN 0 ELSE 1,
       -entity_priority(pol, x.entity_type),
       -(x.end - x.start),
       -x.score >>

\* mask_text_with_report, lines 296-316: the allowlist of the run.
Allowlist(pol, rt) ==
    pol.allowlist \o TRADITIONAL_LABELS \o rt.once_allowlist

\* mask_text_with_report, lines 339-384: detector candidates (regex-only
\* when the NLP engine is missing, else merged), then the forced masks.
Candidates(t, pol, nlp, results, rt) ==
    LET allow == Allowlist(pol, rt)
        det   == IF ~nlp
                 THEN fast_analyze(t, results, allow)
                 ELSE merge_overlaps(pol, DetectorOutput(t, results, allow))
        fms   == normalize_forced_masks(rt.forced_masks)
    IN  [i \in 1..Len(det) |-> AsCandidate(det[i])]
        \o [i \in 1..Len(fms) |-> ForcedCandidate(fms[i])]

\* mask_text_with_report, lines 399-412: the overlap-resolution sweep.
ResolveOverlaps(pol, cands) ==
    LET SortKey(x)   == <<x.start>> \o cand_key(pol, x)
        Better(c, p) == TupleLess(cand_key(pol, c), cand_key(pol, p))
    IN  Sweep(SortedByKey(cands, SortKey), Better)

overlaps(a_s, a_e, b_s, b_e) == a_s < b_e /\ a_e > b_s

\* mask_text_with_report, lines 416-425: drop what meets a keep span.
ApplyKeepSpans(resolved, keep_spans) ==
    LET free(r) == ~\E i \in 1..Len(keep_spans) :
                      overlaps(r.start, r.end,
                               keep_spans[i].start, keep_spans[i].end)
    IN  SelectSeq(resolved, free)

\* corp_prefixes (= corp_suffixes) and corp_abbr
corp_prefixes ==
    { <<"Kabu", "Shiki", "Kai", "Sha">>, <<"Yuu", "Gen", "Kai", "Sha">>,
      <<"Gou", "Dou", "Kai", "Sha">>, <<"Gou", "Mei", "Kai", "Sha">>,
      <<"Gou", "Shi", "Kai", "Sha">> }

corp_abbr == { <<"(", "Kabu", ")">>, <<"FLP", "Kabu", "FRP">> }

corp_suffixes == corp_prefixes

\* boundaries: whitespace, punctuation, brackets and quotes, ASCII and
\* fullwidth.
boundaries ==
    { "sp", "tab", "cr", "nl",
      "Touten", "Kuten", ",", ".", "FComma", "FPeriod", ":", "FColon", ";",
      "FSemicolon", "(", ")", "FLP", "FRP", "[", "]", "FLBracket", "FRBracket",
      "{", "}", "FLBrace", "FRBrace", "<", ">", "FLess", "FGreater",
      "LDAngle", "RDAngle", "LLentic", "RLentic", "LCorner", "RCorner",
      "LWCorner", "RWCorner", "DQuote", "Quote", "LDQuote", "RDQuote",
      "LSQuote", "RSQuote", "Nakaguro", "/", "Backslash", "|", "?", "!",
      "FQuestion" }

AsciiSpace == {"sp", "tab", "cr", "nl"}

ExpandMaxLen == 80

\* while rr < len(text) and text[rr] in (" ", "\t", "\r", "\n"): rr += 1
RECURSIVE SkipSpaceRight(_, _)
SkipSpaceRight(t, rr) ==
    IF rr < Len(t) /\ t[rr + 1] \in AsciiSpace
    THEN SkipSpaceRight(t, rr + 1) ELSE rr

\* while rr < len(text) and text[rr] not in boundaries and consumed < max_len
RECURSIVE ConsumeRight(_, _, _)
ConsumeRight(t, rr, consumed) ==
    IF rr < Len(t) /\ t[rr + 1] \notin boundaries /\ consumed < ExpandMaxLen
    THEN ConsumeRight(t, rr + 1, consumed + 1) ELSE rr

\* while ll > 0 and text[ll - 1] in (" ", "\t", "\r", "\n"): ll -= 1
RECURSIVE SkipSpaceLeft(_, _)
SkipSpaceLeft(t, ll) ==
    IF ll > 0 /\ t[ll] \in AsciiSpace THEN SkipSpaceLeft(t, ll - 1) ELSE ll

\* while ll > 0 and text[ll - 1] not in boundaries and consumed < max_len
RECURSIVE ConsumeLeft(_, _, _)
ConsumeLeft(t, ll, consumed) ==
    IF ll > 0 /\ t[ll] \notin boundaries /\ consumed < ExpandMaxLen
    THEN ConsumeLeft(t, ll - 1, consumed + 1) ELSE ll

\* _expand_company_span: the (start, end) pair after the expansion.
expand_company_span(t, s, e) ==
    IF s < 0 \/ e <= s \/ e > Len(t) THEN <<s, e>>
    ELSE LET seg == Slice(t, s, e)
         IN  IF seg \in corp_prefixes \/ seg \in corp_abbr
             THEN <<s, ConsumeRight(t, SkipSpaceRight(t, e), 0)>>
             ELSE IF seg \in corp_suffixes
             THEN <<ConsumeLeft(t, SkipSpaceLeft(t, s), 0), e>>
             ELSE <<s, e>>

\* mask_text_with_report, lines 497-499: the range the hit is cut at.
HitRange(t, r) ==
    IF r.entity_type = "COMPANY" /\ r.source # "forced"
    THEN expand_company_span(t, r.start, r.end)
    ELSE <<r.start, r.end>>

\* A blackout as long as the original, whatever the minimum.
BlackReplacement_same_length(pol, original) ==
    Repeat(BLACK_CHAR, Len(original))

\* BLACK_CHAR * max(black_min_len, len(original))
BlackReplacement(pol, original) ==
    Repeat(BLACK_CHAR, Max(pol.black_min_len, Len(original)))

\* mask_text_with_report, lines 506-559: replacement, reason and the label
\* state after the hit.  (The detectors of the model report no DATE and no
\* ADDRESS entity, whose LABEL renderings are therefore not modelled.)
\* A variant that knows no party markers.
never_party_marker(entity) == FALSE

\* Line 524.
is_party_marker(entity) == entity = "PARTIES"

Replacement(pol, t, allow, r, start, end, original, st) ==
    LET entity == r.entity_type
        keep(reason) == [repl |-> original, reason |-> reason, state |-> st]
        labelled(reason) ==
            LET g == get_label(st, entity, original, pol.label_format)
            IN  [repl |-> g.label, reason |-> reason, state |-> g.state]
    IN  IF r.source = "forced"
        THEN IF pol.mode = "BLACK"
             THEN [repl |-> BlackReplacement(pol, original),
                   reason |-> r.forced_reason, state |-> st]
             ELSE IF r.label # NoLabel
                  THEN [repl |-> r.label, reason |-> r.forced_reason,
                        state |-> st]
                  ELSE labelled(r.forced_reason)
        ELSE IF is_party_marker(entity) THEN keep("keep:parties")
        ELSE IF in_list(original, allow) THEN keep("keep:allowlist")
        ELSE IF entity = "MONEY" /\ ~has_money_context(t, start, end)
             THEN keep("keep:money_no_context")
        ELSE IF pol.mode = "BLACK"
             THEN [repl |-> BlackReplacement(pol, original),
                   reason |-> "mask:black", state |-> st]
             ELSE labelled("mask:stable_id")

\* (score and score < review_th) or reason == keep:money_no_context or forced
NeedsReview(pol, r, reason) ==
    \/ (r.score # 0 /\ r.score < pol.review_threshold)
    \/ reason = "keep:money_no_context"
    \/ r.source = "forced"

\* mask_text_with_report, lines 427-587: the labelling loop over the
\* resolved candidates, from a given StableIdState.
\* Lines 582-583: the copy of the hit that goes to the review list.
Flagged_h2(hit) ==
    [f \in DOMAIN hit \cup {"review_flag"} |->
        IF f = "review_flag" THEN TRUE ELSE hit[f]]

LabelLoop(pol, t, allow, resolved, st0) ==
    LET f[i \in 0..Len(resolved)] ==
            IF i = 0
            THEN [out |-> <<>>, hits |-> <<>>, review |-> <<>>, last |-> 0,
                  state |-> st0]
            ELSE LET acc      == f[i - 1]
                     r        == resolved[i]
                     rng      == HitRange(t, r)
                     start    == rng[1]
                     end      == rng[2]
                     original == Slice(t, start, end)
                     d        == Replacement(pol, t, allow, r, start, end,
                                             original, acc.state)
                     hit      == [entity_type |-> r.entity_type,
                                  start |-> start, end |-> end,
                                  score |-> r.score, original |-> original,
                                  replacement |-> d.repl, reason |-> d.reason,
                                  source |-> r.source]
                 IN  [out    |-> acc.out \o Slice(t, acc.last, start) \o d.repl,
                      hits   |-> Append(acc.hits, hit),
                      review |-> IF NeedsReview(pol, r, d.reason)
                                 THEN Append(acc.review, Flagged_h2(hit))
                                 ELSE acc.review,
                      last   |-> end,
                      state  |-> d.state]
    IN  f[Len(resolved)]

\* The resolver output of a run (pre-labelling), before and after the keep
\* spans are applied.
Resolved(t, pol, nlp, results, rt) ==
    ResolveOverlaps(pol, Candidates(t, pol, nlp, results, rt))

Kept(t, pol, nlp, results, rt) ==
    ApplyKeepSpans(Resolved(t, pol, nlp, results, rt), rt.keep_spans)

\* MaskingEngine.mask_text_with_report: (masked, report) and the label
\* state the run ends with.
mask_text_with_report(t, pol, nlp, results, rt, st0) ==
    LET fin == LabelLoop(pol, t, Allowlist(pol, rt),
                         Kept(t, pol, nlp, results, rt), st0)
    IN  [masked  |-> fin.out \o Slice(t, fin.last, Len(t)),
         hits    |-> fin.hits,
         review  |-> fin.review,
         summary |-> [total_hits |-> Len(fin.hits),
                      review_hits |-> Len(fin.review)],
         state   |-> fin.state]

-----------------------------------------------------------------------------
(* Inputs of the masking runs.                                             *)

\* Documents: an abbreviated corporate designator followed by a name, and
\* a text of three names of which the first ("A") and the last (the
\* fullwidth "FA") normalise alike.
Texts == { <<"(", "Kabu", ")", "A">>, <<"A", "sp", "B", "FA">> }

\* Policies: entity priorities, output mode, blackout minimum, base
\* allowlist, label formats, review threshold.
Policies ==
    { [entity_priority |-> [e \in {"COMPANY", "PERSON"} |->
                               IF e = "PERSON" THEN 2 ELSE 1],
       mode |-> "LABEL", black_min_len |-> 3, allowlist |-> <<>>,
       label_format |-> <<>>, review_threshold |-> 80],
      [entity_priority |-> <<>>,
       mode |-> "BLACK", black_min_len |-> 3, allowlist |-> <<>>,
       label_format |-> <<>>, review_threshold |-> 80],
      [entity_priority |-> [e \in {"COMPANY"} |-> 5],
       mode |-> "LABEL", black_min_len |-> 3, allowlist |-> << <<"B">> >>,
       label_format |-> [e \in {"PERSON"} |-> <<"[", "Shimei", "]">>],
       review_threshold |-> 80] }

\* Recognizers of the detector, in registry order: entity type and score.
Recognizers ==
    << [entity_type |-> "PERSON", score |-> 85],
       [entity_type |-> "COMPANY", score |-> 70] >>

\* The most items (detections, forced masks, keep spans, once-allowlist
\* terms) one run is given.
MaxItems == 3

\* The same for the documents that are run again and again.
MaxRerunItems == 2

\* The spans detections and forced masks are drawn from: from the start
\* of a word of the documents to the end of one.
WordStarts == {0, 2, 3}

WordEnds == {1, 3, 4}

Spans(n) ==
    {sp \in WordStarts \X WordEnds : sp[1] < sp[2] /\ sp[2] <= n}

\* A finite set of records as a sequence in ascending Key order.
RECURSIVE SetToSeq(_)
SetToSeq(S) ==
    IF S = {} THEN <<>>
    ELSE LET x == CHOOSE y \in S : TRUE IN <<x>> \o SetToSeq(S \ {x})

\* The subsets of S with at most n elements.
RECURSIVE Subsets(_, _)
Subsets(S, n) ==
    IF n <= 0 THEN {{}}
    ELSE LET P == Subsets(S, n - 1)
         IN  P \cup {T \cup {x} : T \in P, x \in S}

\* What the detector may report for a text: a set of (recognizer, span)
\* matches, listed recognizer by recognizer, each in text order.
Detections(t) ==
    { [start |-> sp[1], end |-> sp[2],
       entity_type |-> Recognizers[k].entity_type,
       score |-> Recognizers[k].score, rec |-> k]
      : sp \in Spans(Len(t)), k \in 1..Len(Recognizers) }

DetectionOrder(r) == <<r.rec, r.start, r.end>>

ResultLists(t, n) ==
    { SortedByKey(SetToSeq(D), DetectionOrder) : D \in Subsets(Detections(t), n) }

\* Forced masks a caller may pass (one of them not a valid range), in text
\* order.
ForcedMasks(t) ==
    { [start |-> sp[1], end |-> sp[2], entity_type |-> "CUSTOM", label |-> NoLabel]
      : sp \in Spans(Len(t)) \cup {<<1, 1>>} }

\* Keep spans are the ranges of detections the user switched off
\* (gui_app._collect_runtime_overrides).
KeepSpans(results) ==
    { [start |-> results[i].start, end |-> results[i].end] : i \in 1..Len(results) }

SpanOrder(x) == <<x.start, x.end>>

SpanLists(S, n) == { SortedByKey(SetToSeq(D), SpanOrder) : D \in Subsets(S, n) }

OnceTerms == { <<"A">> }

OnceLists(n) == IF n >= 1 THEN {<<>>} \cup { <<w>> : w \in OnceTerms } ELSE {<<>>}

NoReport == [masked |-> <<>>, hits |-> <<>>, review |-> <<>>,
             summary |-> [total_hits |-> 0, review_hits |-> 0],
             state |-> [counters |-> <<>>, mapping |-> <<>>]]

NoRuntime == [once_allowlist |-> <<>>, forced_masks |-> <<>>, keep_spans |-> <<>>]

-----------------------------------------------------------------------------
(* The masking state machine: the caller installs the overrides of a run   *)
(* (MaskingEngine.set_runtime_overrides), then runs                        *)
(* MaskingEngine.mask_text_with_report.                                    *)

EmptyLabelState == [counters |-> <<>>, mapping |-> <<>>]

InitEngine ==
    /\ policy \in Policies
    /\ nlp_available \in BOOLEAN
    /\ runtime = NoRuntime
    /\ pc = "idle"
    /\ report = NoReport
    /\ label_state = EmptyLabelState
    /\ prev_counters = <<>>
    /\ OnlyMaskRuns

set_runtime_overrides(once_allowlist, forced_masks, keep_spans) ==
    /\ pc \in {"idle", "done"}
    /\ runtime' = RuntimeOverrides(once_allowlist, forced_masks, keep_spans)
    /\ pc' = "configured"
    /\ report' = NoReport
    /\ UNCHANGED <<text, policy, nlp_available, analyzer_results, label_state,
                   prev_counters>>
    /\ OnlyMaskChanges

\* label_state is the StableIdState of the run; prev_counters keeps, for
\* the record, the counters the run before it ended with.
MaskTextWithReport ==
    /\ pc = "configured"
    /\ report' = mask_text_with_report(text, policy, nlp_available,
                                       analyzer_results, runtime,
                                       StableIdState_create)
    /\ label_state' = report'.state
    /\ prev_counters' = label_state.counters
    /\ pc' = "done"
    /\ UNCHANGED <<text, policy, nlp_available, analyzer_results, runtime>>
    /\ OnlyMaskChanges

\* The overrides of a run that is given at most n items besides the
\* detections.
OverridesWithin(n) ==
    \E fm \in SpanLists(ForcedMasks(text), n) :
    \E ks \in SpanLists(KeepSpans(analyzer_results), n - Len(fm)) :
    \E oa \in OnceLists(n - Len(fm) - Len(ks)) :
        set_runtime_overrides(oa, fm, ks)

\* SpecMask: one run per document, with at most MaxItems items in all.
InitMask ==
    /\ text \in Texts
    /\ analyzer_results \in ResultLists(text, MaxItems)
    /\ InitEngine

SetOverridesMask ==
    /\ pc = "idle"
    /\ OverridesWithin(MaxItems - Len(analyzer_results))

NextMask == SetOverridesMask \/ MaskTextWithReport

SpecMask == InitMask /\ [][NextMask]_vars

\* SpecRerun: any number of runs on the same engine and document, each with
\* overrides of its own, with at most MaxRerunItems items in all.
InitRerun ==
    /\ text = <<"A", "sp", "B", "FA">>
    /\ analyzer_results \in ResultLists(text, MaxRerunItems)
    /\ InitEngine

SetOverridesRerun == OverridesWithin(MaxRerunItems - Len(analyzer_results))

NextRerun == SetOverridesRerun \/ MaskTextWithReport

SpecRerun == InitRerun /\ [][NextRerun]_vars

-----------------------------------------------------------------------------
(* Properties of the overlap resolver and of the hit list.                 *)

Installed == pc \in {"configured", "done"}

CurrentCandidates ==
    Candidates(text, policy, nlp_available, analyzer_results, runtime)

CurrentResolved == ResolveOverlaps(policy, CurrentCandidates)

\* The order of the specification: forced first, then entity priority,
\* span length and score, each descending.  RankAbove(a, b): a ranks
\* strictly higher than b.
RankAbove(a, b) ==
    LET fa == IF a.source = "forced" THEN 1 ELSE 0
        fb == IF b.source = "forced" THEN 1 ELSE 0
        pa == entity_priority(policy, a.entity_type)
        pb == entity_priority(policy, b.entity_type)
        la == a.end - a.start
        lb == b.end - b.start
    IN  \/ fa > fb
        \/ fa = fb /\ pa > pb
        \/ fa = fb /\ pa = pb /\ la > lb
        \/ fa = fb /\ pa = pb /\ la = lb /\ a.score > b.score

RangesOverlap(a, b) == a.start < b.end /\ b.start < a.end

Retained(c) == c \in Range(CurrentResolved)

\* C1 as claimed: of every two candidates whose ranges overlap the sweep
\* retains exactly one, and it is the higher-ranked of the two.
C1_ExactlyOneOfEveryOverlappingPair ==
    Installed =>
        LET cs == CurrentCandidates
        IN  \A i, j \in 1..Len(cs) :
                (i < j /\ RangesOverlap(cs[i], cs[j])) =>
                    /\ Retained(cs[i]) # Retained(cs[j])
                    /\ Retained(cs[i]) => ~RankAbove(cs[j], cs[i])
                    /\ Retained(cs[j]) => ~RankAbove(cs[i], cs[j])

\* C1 amended: the sweep never retains both of two overlapping candidates;
\* a candidate is discarded only when an overlapping candidate ranks at
\* least as high; a candidate that ranks above every candidate it overlaps
\* is retained; and of two overlapping candidates that overlap no third
\* one exactly one is retained, the higher-ranked.
C1_OverlapResolution ==
    Installed =>
        LET cs == CurrentCandidates
            alone(i, j) == \A k \in 1..Len(cs) :
                              (k # i /\ k # j) =>
                                  /\ ~RangesOverlap(cs[k], cs[i])
                                  /\ ~RangesOverlap(cs[k], cs[j])
        IN  /\ \A i, j \in 1..Len(cs) :
                   (i < j /\ RangesOverlap(cs[i], cs[j])) =>
                       /\ ~(Retained(cs[i]) /\ Retained(cs[j]))
                       /\ alone(i, j) =>
                              /\ Retained(cs[i]) # Retained(cs[j])
                              /\ Retained(cs[i]) => ~RankAbove(cs[j], cs[i])
                              /\ Retained(cs[j]) => ~RankAbove(cs[i], cs[j])
            /\ \A i \in 1..Len(cs) :
                   ~Retained(cs[i]) =>
                       \E j \in 1..Len(cs) :
                           /\ j # i
                           /\ RangesOverlap(cs[i], cs[j])
                           /\ ~RankAbove(cs[i], cs[j])
            /\ \A i \in 1..Len(cs) :
                   (\A j \in 1..Len(cs) :
                        (j # i /\ RangesOverlap(cs[i], cs[j])) =>
                            RankAbove(cs[i], cs[j]))
                   => Retained(cs[i])

\* A run in which a forced mask displaced a higher-priority, longer
\* detection, and a run in which the longer of two equal-priority
\* detections won.
C1_Witness ==
    /\ Installed
    /\ LET cs == CurrentCandidates
       IN  /\ \E i, j \in 1..Len(cs) :
                  /\ RangesOverlap(cs[i], cs[j])
                  /\ cs[i].source = "forced" /\ cs[j].source = "analyzer"
                  /\ entity_priority(policy, cs[j].entity_type)
                         > entity_priority(policy, cs[i].entity_type)
                  /\ cs[j].end - cs[j].start > cs[i].end - cs[i].start
                  /\ Retained(cs[i]) /\ ~Retained(cs[j])
           /\ \E i, j \in 1..Len(cs) :
                  /\ RangesOverlap(cs[i], cs[j])
                  /\ cs[i].source = "analyzer" /\ cs[j].source = "analyzer"
                  /\ cs[i].entity_type # cs[j].entity_type
                  /\ Retained(cs[i]) /\ ~Retained(cs[j])

Done == pc = "done"

Hits == report.hits

\* C2 as claimed: the hits of a report are in ascending start order and
\* no two of them overlap, also after the COMPANY expansion.
C2_HitsSortedAndDisjoint ==
    Done =>
        \A i, j \in 1..Len(Hits) :
            i < j => /\ Hits[i].start <= Hits[j].start
                     /\ Hits[i].end <= Hits[j].start

\* C3 as claimed: no hit of a report intersects a keep span of the run,
\* also when the COMPANY expansion changed the range of the hit.
C3_NoHitMeetsKeepSpan ==
    Done =>
        \A i \in 1..Len(Hits) :
            \A k \in 1..Len(runtime.keep_spans) :
                ~overlaps(Hits[i].start, Hits[i].end,
                          runtime.keep_spans[k].start,
                          runtime.keep_spans[k].end)

\* A forced mask with 0 <= start < end that overlaps no other forced mask
\* and meets no keep span of the run.
ForcedMaskInForce(i) ==
    LET fms == runtime.forced_masks
        fm  == fms[i]
    IN  /\ 0 <= fm.start /\ fm.start < fm.end
        /\ \A j \in 1..Len(fms) :
               j # i => ~RangesOverlap(fm, fms[j])
        /\ \A k \in 1..Len(runtime.keep_spans) :
               ~RangesOverlap(fm, runtime.keep_spans[k])

\* C4: every such forced mask is a hit of the report, with source
\* "forced" and exactly its start and end, whatever detector candidates
\* overlap it.
C4_ForcedMaskIsHit ==
    Done =>
        \A i \in 1..Len(runtime.forced_masks) :
            ForcedMaskInForce(i) =>
                \E h \in 1..Len(Hits) :
                    /\ Hits[h].source = "forced"
                    /\ Hits[h].start = runtime.forced_masks[i].start
                    /\ Hits[h].end = runtime.forced_masks[i].end

\* A finished run whose forced mask lies inside a longer detection of an
\* entity with a positive priority, and is a hit all the same.
C4_Witness ==
    /\ Done
    /\ \E i \in 1..Len(runtime.forced_masks) :
           /\ ForcedMaskInForce(i)
           /\ \E d \in 1..Len(analyzer_results) :
                  /\ analyzer_results[d].start <= runtime.forced_masks[i].start
                  /\ runtime.forced_masks[i].end < analyzer_results[d].end
                  /\ entity_priority(policy, analyzer_results[d].entity_type) > 0
           /\ \E h \in 1..Len(Hits) :
                  /\ Hits[h].source = "forced"
                  /\ Hits[h].start = runtime.forced_masks[i].start
                  /\ Hits[h].end = runtime.forced_masks[i].end

\* The hits whose replacement came from StableIdState.get_label: the
\* stable-id hits and the forced hits of a LABEL run that carry no label
\* of their own.
Labelled(h) ==
    /\ policy.mode = "LABEL"
    /\ \/ h.reason = "mask:stable_id"
       \/ h.source = "forced"

LabelKey(h) == <<h.entity_type, normalize_term(h.original)>>

FirstLabel(entity) ==
    Format(DictGet(policy.label_format, entity, DefaultFormat(entity)), 1)

\* C5: a run is a function of its text, policy and overrides alone.  Its
\* report is the one a fresh engine state yields, whatever runs came
\* before; the first label it issues for an entity carries number 1; and
\* the label state it ends with holds the keys of its own hits only.
C5_RunsIndependent ==
    Done =>
        /\ report = mask_text_with_report(text, policy, nlp_available,
                                          analyzer_results, runtime,
                                          EmptyLabelState)
        /\ \A i \in 1..Len(Hits) :
               (/\ Labelled(Hits[i])
                /\ \A j \in 1..(i - 1) :
                       Labelled(Hits[j]) =>
                           Hits[j].entity_type # Hits[i].entity_type)
               => Hits[i].replacement = FirstLabel(Hits[i].entity_type)
        /\ DOMAIN label_state.mapping =
               { LabelKey(Hits[i]) : i \in {k \in 1..Len(Hits) : Labelled(Hits[k])} }

\* A second or later run whose first label of an entity carries number 1
\* and which numbers fewer originals of that entity than the run before
\* it had numbered.
C5_Witness ==
    /\ Done
    /\ \E i \in 1..Len(Hits) :
           /\ Labelled(Hits[i])
           /\ Hits[i].entity_type \in DOMAIN prev_counters
           /\ Hits[i].replacement = FirstLabel(Hits[i].entity_type)
           /\ label_state.counters[Hits[i].entity_type]
                  < prev_counters[Hits[i].entity_type]

\* C6: within a run, two hits labelled through get_label with the same
\* entity type and the same normalised original carry the same label.
C6_SameKeySameLabel ==
    Done =>
        \A i, j \in 1..Len(Hits) :
            (/\ Labelled(Hits[i]) /\ Labelled(Hits[j])
             /\ LabelKey(Hits[i]) = LabelKey(Hits[j]))
            => Hits[i].replacement = Hits[j].replacement

\* A run with three labelled hits of one entity: the first and the third
\* differ as strings and normalise alike, the second is another term.
C6_Witness ==
    /\ Done
    /\ \E i, j, k \in 1..Len(Hits) :
           /\ i < j /\ j < k
           /\ Labelled(Hits[i]) /\ Labelled(Hits[j]) /\ Labelled(Hits[k])
           /\ Hits[i].entity_type = Hits[j].entity_type
           /\ Hits[i].original # Hits[k].original
           /\ LabelKey(Hits[i]) = LabelKey(Hits[k])
           /\ LabelKey(Hits[i]) # LabelKey(Hits[j])
           /\ Hits[i].replacement = Hits[k].replacement
           /\ Hits[i].replacement # Hits[j].replacement

\* The hits a run masks: the forced ones, and the others unless passed
\* through as PARTIES, allowlisted or money without context.
Masked(h) ==
    \/ h.source = "forced"
    \/ h.reason \notin {"keep:parties", "keep:allowlist", "keep:money_no_context"}

\* C7: in BLACK mode the replacement of every masked hit is made of
\* max(black_min_len, length of the original) filler characters.
C7_BlackLength ==
    (Done /\ policy.mode = "BLACK") =>
        \A i \in 1..Len(Hits) :
            Masked(Hits[i]) =>
                /\ Len(Hits[i].replacement)
                       = IF Len(Hits[i].original) > policy.black_min_len
                         THEN Len(Hits[i].original)
                         ELSE policy.black_min_len
                /\ \A n \in 1..Len(Hits[i].replacement) :
                       Hits[i].replacement[n] = BLACK_CHAR

\* A BLACK run with a masked hit shorter than the minimum and a masked
\* hit longer than it, one of them forced.
C7_Witness ==
    /\ Done /\ policy.mode = "BLACK"
    /\ \E i, j \in 1..Len(Hits) :
           /\ Masked(Hits[i]) /\ Masked(Hits[j])
           /\ Hits[i].source # Hits[j].source
           /\ Len(Hits[i].original) < policy.black_min_len
           /\ Len(Hits[i].replacement) = policy.black_min_len
           /\ Len(Hits[j].original) > policy.black_min_len
           /\ Len(Hits[j].replacement) = Len(Hits[j].original)

-----------------------------------------------------------------------------
(* pipelines/docx_segments.py                                              *)

\* A header or footer that is missing or has no paragraph.
NoPart == <<"NoPart">>

\* A header or footer the reading of which raises: at sec.header or at its
\* paragraphs, or only at the text of its first paragraph.
RaisesOnAccess == <<"RaisesOnAccess">>

RaisesOnText == <<"RaisesOnText">>

\* Lines 49-62: a header or footer that is not there, or that raises before
\* add_seg is called, leaves no segment.
NoSegment(t) == t \in {NoPart, RaisesOnAccess, RaisesOnText}

\* The separator appended after the text of a segment ("\n").
SEP == "nl"

\* Segment(seg_id, kind, obj, text, global_start, global_end); the seg_id
\* f"{kind}{idx:06d}" is the pair of its kind and number, obj the number of
\* the container among the containers of the document.
Segment(kind, n, obj, t, start, end) ==
    [seg_id |-> <<kind, n>>, kind |-> kind, obj |-> obj, text |-> t,
     global_start |-> start, global_end |-> end]

\* The traversal of lines 48-72: for each section its header and then its
\* footer, then the body paragraphs, then the table cells row by row.
RECURSIVE SectionVisits(_)
SectionVisits(secs) ==
    IF secs = <<>> THEN <<>>
    ELSE << [kind |-> "H", text |-> secs[1].header],
            [kind |-> "F", text |-> secs[1].footer] >>
         \o SectionVisits(Tail(secs))

Visits(d) ==
    SectionVisits(d.sections)
    \o [i \in 1..Len(d.paragraphs) |-> [kind |-> "P", text |-> d.paragraphs[i]]]
    \o [i \in 1..Len(d.cells) |-> [kind |-> "C", text |-> d.cells[i]]]

\* An add_seg that leaves the cursor on the separator.
add_seg_without_separator(st, kind, obj, t) ==
    LET start == st.cur
        end   == st.cur + Len(t)
    IN  [segments |-> Append(st.segments,
                             Segment(kind, st.idx, obj, t, start, end)),
         buf      |-> st.buf \o <<t, <<SEP>> >>,
         cur      |-> end,
         idx      |-> st.idx + 1]

\* add_seg: the segment list, buffer, cursor and counter after the call.
add_seg(st, kind, obj, t) ==
    LET start == st.cur
        end   == st.cur + Len(t)
    IN  [segments |-> Append(st.segments,
                             Segment(kind, st.idx, obj, t, start, end)),
         buf      |-> st.buf \o <<t, <<SEP>> >>,
         cur      |-> end + 1,
         idx      |-> st.idx + 1]

\* One container of the traversal: a header or footer that is there, a
\* paragraph or a cell becomes a segment; a missing header or footer is
\* passed over.
VisitContainer ==
    /\ LET v  == Visits(doc)[seg_pos + 1]
           st == [segments |-> segments, buf |-> buf, cur |-> cur, idx |-> idx]
           nx == IF NoSegment(v.text) THEN st
                 ELSE add_seg(st, v.kind, seg_pos + 1, v.text)
       IN  /\ segments' = nx.segments
           /\ buf' = nx.buf
           /\ cur' = nx.cur
           /\ idx' = nx.idx
    /\ seg_pos' = seg_pos + 1
    /\ UNCHANGED <<doc, full_text, seg_pc>>
    /\ OnlySegmentsChange

\* The kind of the container the traversal is at, or "end".
NextKind ==
    IF seg_pc = "extract" /\ seg_pos < Len(Visits(doc))
    THEN Visits(doc)[seg_pos + 1].kind
    ELSE "end"

VisitHeader ==
    /\ NextKind = "H"
    /\ VisitContainer

VisitFooter ==
    /\ NextKind = "F"
    /\ VisitContainer

VisitParagraph ==
    /\ NextKind = "P"
    /\ VisitContainer

VisitCell ==
    /\ NextKind = "C"
    /\ VisitContainer

\* full_text = "".join(buf); return
JoinAndReturn ==
    /\ seg_pc = "extract"
    /\ seg_pos = Len(Visits(doc))
    /\ full_text' = Concat(buf)
    /\ seg_pc' = "returned"
    /\ UNCHANGED <<doc, seg_pos, segments, buf, cur, idx>>
    /\ OnlySegmentsChange

\* Documents: at most MaxContainers headers, footers, paragraphs and cells
\* in all, with texts that are empty, one character, or two lines.
MaxContainers == 3

ContainerTexts == { <<>>, <<"a">>, <<"b", "nl", "c">> }

PartCount(sec) ==
    (IF sec.header = NoPart THEN 0 ELSE 1) + (IF sec.footer = NoPart THEN 0 ELSE 1)

Sections(n) ==
    { sec \in [header : ContainerTexts \cup {NoPart},
               footer : ContainerTexts \cup {NoPart}] :
          PartCount(sec) >= 1 /\ PartCount(sec) <= n }

\* Section lists with at most n headers and footers; the first section may
\* have neither.
RECURSIVE SectionLists(_)
SectionLists(n) ==
    {<<>>} \cup
    UNION { { <<sec>> \o rest : rest \in SectionLists(n - PartCount(sec)) }
            : sec \in Sections(n) }

RECURSIVE TextLists(_)
TextLists(n) ==
    IF n <= 0 THEN {<<>>}
    ELSE {<<>>} \cup { <<t>> \o rest : t \in ContainerTexts, rest \in TextLists(n - 1) }

RECURSIVE PartTotal(_)
PartTotal(secs) ==
    IF secs = <<>> THEN 0 ELSE PartCount(secs[1]) + PartTotal(Tail(secs))

BareSection == [header |-> NoPart, footer |-> NoPart]

InitSegments ==
    /\ \E secs \in SectionLists(MaxContainers) :
       \E bare \in BOOLEAN :
       \E ps \in TextLists(MaxContainers - PartTotal(secs)) :
       \E cs \in TextLists(MaxContainers - PartTotal(secs) - Len(ps)) :
           doc = [sections   |-> IF bare THEN <<BareSection>> \o secs ELSE secs,
                  paragraphs |-> ps,
                  cells      |-> cs]
    /\ seg_pos = 0 /\ segments = <<>> /\ buf = <<>> /\ cur = 0 /\ idx = 0
    /\ full_text = <<>> /\ seg_pc = "extract"
    /\ OnlySegmentsRun

NextSegments ==
    \/ VisitHeader
    \/ VisitFooter
    \/ VisitParagraph
    \/ VisitCell
    \/ JoinAndReturn

SpecSegments == InitSegments /\ [][NextSegments]_vars

-----------------------------------------------------------------------------
(* Properties of the segment list.                                         *)

Returned == seg_pc = "returned"

RECURSIVE TextLengthSum(_)
TextLengthSum(segs) ==
    IF segs = <<>> THEN 0
    ELSE Len(segs[1].text) + TextLengthSum(Tail(segs))

\* "\n".join(texts)
RECURSIVE JoinedBySeparator(_)
JoinedBySeparator(segs) ==
    IF segs = <<>> THEN <<>>
    ELSE IF Len(segs) = 1 THEN segs[1].text
    ELSE segs[1].text \o <<SEP>> \o JoinedBySeparator(Tail(segs))

\* every text followed by a separator
RECURSIVE EachFollowedBySeparator(_)
EachFollowedBySeparator(segs) ==
    IF segs = <<>> THEN <<>>
    ELSE segs[1].text \o <<SEP>> \o EachFollowedBySeparator(Tail(segs))

\* The first segment starts at 0, every range has the length of its text
\* and holds that text, and consecutive segments are one separator apart.
SegmentsTile ==
    /\ segments # <<>> => segments[1].global_start = 0
    /\ \A i \in 1..Len(segments) :
           /\ segments[i].global_end - segments[i].global_start
                  = Len(segments[i].text)
           /\ segments[i].global_end <= Len(full_text)
           /\ \A k \in 1..Len(segments[i].text) :
                  full_text[segments[i].global_start + k] = segments[i].text[k]
    /\ \A i \in 1..(Len(segments) - 1) :
           /\ segments[i + 1].global_start = segments[i].global_end + 1
           /\ full_text[segments[i].global_end + 1] = SEP

\* C8 as claimed: the segments tile the text, its length is the sum of
\* the segment lengths plus the separators between consecutive segments,
\* and the segment texts joined by the separator are the text.
C8_PartitionWithInnerSeparators ==
    Returned =>
        /\ SegmentsTile
        /\ Len(full_text) = TextLengthSum(segments)
                            + (IF segments = <<>> THEN 0 ELSE Len(segments) - 1)
        /\ JoinedBySeparator(segments) = full_text

\* C8 amended: the segments tile the text, every segment including the
\* last is followed by one separator, the length of the text is the sum of
\* the segment lengths plus the number of segments, and the segment texts
\* each followed by the separator are the text.
C8_PartitionWithTrailingSeparator ==
    Returned =>
        /\ SegmentsTile
        /\ \A i \in 1..Len(segments) :
               /\ segments[i].global_end < Len(full_text)
               /\ full_text[segments[i].global_end + 1] = SEP
        /\ Len(full_text) = TextLengthSum(segments) + Len(segments)
        /\ EachFollowedBySeparator(segments) = full_text

\* A document with a header, a paragraph and a cell, one of them empty and
\* one of them of two lines, and a section without a footer.
C8_Witness ==
    /\ Returned
    /\ Len(segments) = MaxContainers
    /\ {segments[i].kind : i \in 1..Len(segments)} = {"H", "P", "C"}
    /\ \E i, j \in 1..Len(segments) :
           /\ segments[i].text = <<>>
           /\ SEP \in Range(segments[j].text)
    /\ \E k \in 1..Len(doc.sections) : doc.sections[k].footer = NoPart

-----------------------------------------------------------------------------
(* pipelines/docx_rewrite.py: the run splicer.                             *)
(*                                                                         *)
(* A paragraph is the sequence of its w:r elements in document order, each *)
(* [id, text, fmt]: id tells the Run objects apart, fmt stands for the     *)
(* run properties.  `runs` is the Python list the splicer was handed: the  *)
(* ids of the runs the paragraph had at the call.                          *)

None == "None"

RunIndex(p, id) == CHOOSE i \in 1..Len(p) : p[i].id = id

RunText(p, id) == p[RunIndex(p, id)].text

\* run.text = t
SetRunText(p, id, t) == [p EXCEPT ![RunIndex(p, id)].text = t]

\* A split whose new run carries no run properties.
split_run_at_unformatted(p, id, offset) ==
    LET i == RunIndex(p, id)
        t == p[i].text
    IN  IF offset <= 0 THEN [para |-> p, before |-> None, after |-> id]
        ELSE IF offset >= Len(t) THEN [para |-> p, before |-> id, after |-> None]
        ELSE LET new_id  == Len(p) + 1
                 new_run == [id |-> new_id, text |-> Slice(t, offset, Len(t)),
                             fmt |-> "plain"]
             IN  [para |-> SubSeq(SetRunText(p, id, Slice(t, 0, offset)), 1, i)
                           \o <<new_run>> \o SubSeq(p, i + 1, Len(p)),
                  before |-> id, after |-> new_id]

\* _split_run_at: the paragraph after the call and the two runs returned.
\* The new run is a deep copy of the run element, placed right after it.
split_run_at(p, id, offset) ==
    LET i == RunIndex(p, id)
        t == p[i].text
    IN  IF offset <= 0 THEN [para |-> p, before |-> None, after |-> id]
        ELSE IF offset >= Len(t) THEN [para |-> p, before |-> id, after |-> None]
        ELSE LET new_id  == Len(p) + 1
                 new_run == [id |-> new_id, text |-> Slice(t, offset, Len(t)),
                             fmt |-> p[i].fmt]
             IN  [para |-> SubSeq(SetRunText(p, id, Slice(t, 0, offset)), 1, i)
                           \o <<new_run>> \o SubSeq(p, i + 1, Len(p)),
                  before |-> id, after |-> new_id]

\* _apply_backward
apply_backward(t, rs) ==
    LET Key(r) == <<-r.start>>
        sorted == SortedByKey(rs, Key)
        f[i \in 0..Len(sorted)] ==
            IF i = 0 THEN t
            ELSE Slice(f[i - 1], 0, sorted[i].start) \o sorted[i].replacement
                 \o Slice(f[i - 1], sorted[i].end, Len(f[i - 1]))
    IN  f[Len(sorted)]

\* build_map
build_map(p, rl) ==
    LET f[i \in 0..Len(rl)] ==
            IF i = 0 THEN [info |-> <<>>, pos |-> 0]
            ELSE LET t == RunText(p, rl[i])
                 IN  [info |-> Append(f[i - 1].info,
                                      [run |-> rl[i], start |-> f[i - 1].pos,
                                       end |-> f[i - 1].pos + Len(t)]),
                      pos  |-> f[i - 1].pos + Len(t)]
    IN  f[Len(rl)].info

\* affected: the indices (from 1) of the runs that meet [rs, re)
Affected(run_info, rs, re) ==
    {i \in 1..Len(run_info) : run_info[i].start < re /\ run_info[i].end > rs}

\* lines 126-133: one affected run, edited in place
splice_single_run(p, run_info, affected, repl) ==
    LET ri      == run_info[CHOOSE i \in affected : TRUE]
        local_s == repl.start - ri.start
        local_e == repl.end - ri.start
        old     == RunText(p, ri.run)
    IN  SetRunText(p, ri.run,
                   Slice(old, 0, local_s) \o repl.replacement
                   \o Slice(old, local_e, Len(old)))

RECURSIVE ClearRuns(_, _, _)
ClearRuns(p, run_info, idxs) ==
    IF idxs = {} THEN p
    ELSE LET i == CHOOSE j \in idxs : TRUE
         IN  ClearRuns(SetRunText(p, run_info[i].run, <<>>), run_info, idxs \ {i})

\* The splicer of version 1.0: prefix, replacement and the suffix of the
\* last run all go into the first run.
splice_multi_run_v1_0(p, run_info, affected, repl) ==
    LET first_idx == CHOOSE i \in affected : \A j \in affected : i <= j
        last_idx  == CHOOSE i \in affected : \A j \in affected : j <= i
        first_run == run_info[first_idx].run
        last_run  == run_info[last_idx].run
        last_text == RunText(p, last_run)
        suffix    == Slice(last_text, repl.end - run_info[last_idx].start,
                           Len(last_text))
        prefix    == Slice(RunText(p, first_run), 0,
                           repl.start - run_info[first_idx].start)
    IN  SetRunText(ClearRuns(p, run_info, affected \ {first_idx}), first_run,
                   prefix \o repl.replacement \o suffix)

\* lines 135-178: several affected runs.  The suffix of the last run moves
\* to a new run split off it, the first run becomes prefix + replacement,
\* the runs between them and the last run are emptied.
splice_multi_run(p, run_info, affected, repl) ==
    LET first_idx     == CHOOSE i \in affected : \A j \in affected : i <= j
        last_idx      == CHOOSE i \in affected : \A j \in affected : j <= i
        first_ri      == run_info[first_idx]
        last_ri       == run_info[last_idx]
        local_s_first == repl.start - first_ri.start
        local_e_last  == repl.end - last_ri.start
        last_run      == last_ri.run
        last_text     == RunText(p, last_run)
        suffix_text   == Slice(last_text, local_e_last, Len(last_text))
        p1 == IF local_e_last < Len(last_text) /\ suffix_text # <<>>
              THEN SetRunText(split_run_at(p, last_run, local_e_last).para,
                              last_run, <<>>)
              ELSE SetRunText(p, last_run, <<>>)
        first_run     == first_ri.run
        first_text    == RunText(p1, first_run)
        prefix        == Slice(first_text, 0, local_s_first)
        p2 == SetRunText(p1, first_run, prefix \o repl.replacement)
        p3 == ClearRuns(p2, run_info, affected \ {first_idx, last_idx})
    IN  IF suffix_text = <<>> /\ last_idx # first_idx
        THEN SetRunText(p3, last_run, <<>>)
        ELSE p3

\* A loop that takes the replacements in the order they were given.
as_given(rs) == rs

\* Line 110: sorted(replacements, key=lambda r: r["start"], reverse=True)
by_start_reversed(rs) ==
    LET Key(r) == <<-r.start>>
    IN  SortedByKey(rs, Key)

\* _apply_replacements_to_runs, lines 95-110: the early return, and the
\* replacements in descending order of start.
CallSplicer ==
    /\ splice_pc = "call"
    /\ IF runs = <<>> \/ repls = <<>>
       THEN /\ pending' = <<>>
            /\ splice_pc' = "returned"
       ELSE /\ pending' = by_start_reversed(repls)
            /\ splice_pc' = "loop"
    /\ UNCHANGED <<para0, repls, para, runs>>
    /\ OnlySpliceChanges

\* The affected runs of the replacement the loop is at.
AffectedNow ==
    IF splice_pc = "loop"
    THEN Affected(build_map(para, runs), pending[1].start, pending[1].end)
    ELSE {}

\* The end of one pass of the loop; _refresh_runs_list leaves `runs` as
\* it is.
NextReplacement ==
    /\ pending' = Tail(pending)
    /\ splice_pc' = IF Tail(pending) = <<>> THEN "returned" ELSE "loop"
    /\ UNCHANGED <<para0, repls, runs>>
    /\ OnlySpliceChanges

\* if not affected: continue
SkipReplacement ==
    /\ splice_pc = "loop"
    /\ AffectedNow = {}
    /\ para' = para
    /\ NextReplacement

SpliceSingleRun ==
    /\ splice_pc = "loop"
    /\ Cardinality(AffectedNow) = 1
    /\ para' = splice_single_run(para, build_map(para, runs), AffectedNow,
                                 pending[1])
    /\ NextReplacement

SpliceMultiRun ==
    /\ splice_pc = "loop"
    /\ Cardinality(AffectedNow) > 1
    /\ para' = splice_multi_run(para, build_map(para, runs), AffectedNow,
                                pending[1])
    /\ NextReplacement

\* Paragraphs: a text of distinct characters cut into at most MaxRuns runs
\* (empty runs included), the runs formatted differently; replacements: at
\* most MaxRepls of them, overlapping or not, some past the end of the text.
MaxRuns == 3

MaxRepls == 2

ParaText == <<"a", "b", "c", "d">>

Formats == <<"bold", "italic", "underline", "plain">>

RECURSIVE Cuts(_, _)
Cuts(t, k) ==
    IF k = 1 THEN {<<t>>}
    ELSE UNION { { <<Slice(t, 0, i)>> \o rest :
                     rest \in Cuts(Slice(t, i, Len(t)), k - 1) }
                 : i \in 0..Len(t) }

AsRuns(texts) ==
    [i \in 1..Len(texts) |->
        [id |-> i, text |-> texts[i],
         fmt |-> Formats[((i - 1) % Len(Formats)) + 1]]]

Paragraphs ==
    {<<>>} \cup UNION { { AsRuns(c) : c \in Cuts(ParaText, k) } : k \in 1..MaxRuns }

ReplacementTexts == { <<>>, <<"X", "X">> }

ReplacementSpans ==
    { [start |-> q[1], end |-> q[2]] :
        q \in {r \in (0..Len(ParaText)) \X (1..(Len(ParaText) + 1)) :
                  r[1] < r[2] /\ (r[2] <= Len(ParaText) \/ r[1] >= Len(ParaText) - 1)} }

\* The replacements of one call all carry the same replacement text.
ReplacementLists ==
    { [i \in 1..Len(sl) |->
          [start |-> sl[i].start, end |-> sl[i].end, replacement |-> w]] :
        sl \in SpanLists(ReplacementSpans, MaxRepls), w \in ReplacementTexts }

\* The paragraph and the replacement of the worked example.
HelloWorld ==
    << [id |-> 1, text |-> <<"H", "e", "l", "l", "o", "sp">>, fmt |-> "bold"],
       [id |-> 2, text |-> <<"W", "o", "r", "l", "d">>, fmt |-> "italic"] >>

HelloWorldReplacement ==
    [start |-> 3, end |-> 9, replacement |-> <<"X", "X", "X", "X", "X", "X">>]

Reversed(s) == [i \in 1..Len(s) |-> s[Len(s) + 1 - i]]

\* The caller hands the replacements over in ascending or descending order.
InitSplice ==
    /\ \/ /\ para0 \in Paragraphs
          /\ repls \in ReplacementLists \cup { Reversed(rl) : rl \in ReplacementLists }
       \/ para0 = HelloWorld /\ repls = <<HelloWorldReplacement>>
    /\ para = para0
    /\ runs = [i \in 1..Len(para0) |-> para0[i].id]
    /\ pending = <<>>
    /\ splice_pc = "call"
    /\ OnlySpliceRuns

NextSplice ==
    \/ CallSplicer
    \/ SkipReplacement
    \/ SpliceSingleRun
    \/ SpliceMultiRun

SpecSplice == InitSplice /\ [][NextSplice]_vars

-----------------------------------------------------------------------------
(* Properties of the run splicer.                                          *)

Spliced == splice_pc = "returned"

\* The characters of a paragraph in order, each with the formatting of
\* its run.
RECURSIVE Formatted(_)
Formatted(p) ==
    IF p = <<>> THEN <<>>
    ELSE [k \in 1..Len(p[1].text) |-> [ch |-> p[1].text[k], fmt |-> p[1].fmt]]
         \o Formatted(Tail(p))

NonOverlapping(rs) ==
    \A i, j \in 1..Len(rs) :
        i # j => (rs[i].end <= rs[j].start \/ rs[j].end <= rs[i].start)

\* 0-based position n lies in a replaced range.
Replaced(n) == \E i \in 1..Len(repls) : repls[i].start <= n /\ n < repls[i].end

IsOriginal(c) == c.ch # "X"

\* The formatted characters of the paragraph as passed in that lie in no
\* replaced range.
Untouched ==
    LET f == Formatted(para0)
        keep[i \in 0..Len(f)] ==
            IF i = 0 THEN <<>>
            ELSE IF Replaced(i - 1) THEN keep[i - 1]
            ELSE Append(keep[i - 1], f[i])
    IN  keep[Len(f)]

Shown(p) == [i \in 1..Len(p) |-> [text |-> p[i].text, fmt |-> p[i].fmt]]

WorkedExample == para0 = HelloWorld /\ repls = <<HelloWorldReplacement>>

SAME_LINE_TOLERANCE == 2

CharInfo(page_idx, x0, y0, x1, y1, char) ==
    [page_idx |-> page_idx, x0 |-> x0, y0 |-> y0, x1 |-> x1, y1 |-> y1,
     char |-> char]

\* The entry _extract_text_with_positions adds at the end of a line or page.
dummy(page_idx) == CharInfo(page_idx, 0, 0, 0, 0, "nl")

Abs(x) == IF x < 0 THEN -x ELSE x

NoRect == [page |-> -1]

\* Line 163: the characters the loop passes over.
IsSkipped(ci) ==
    ci.char = "nl" \/ (ci.x0 = 0 /\ ci.y0 = 0 /\ ci.x1 = 0 /\ ci.y1 = 0)

\* A variant that does not look at the page of the character.
same_line_on_any_page(current, ci) ==
    /\ current # NoRect
    /\ Abs(ci.y0 - current.current_y0) < SAME_LINE_TOLERANCE

\* Lines 166-171: the character continues the current rectangle.
same_line(current, ci) ==
    /\ current # NoRect
    /\ ci.page_idx = current.page
    /\ Abs(ci.y0 - current.current_y0) < SAME_LINE_TOLERANCE

\* fitz.Rect(current_rect), filed under current_page.
Flushed(current) ==
    IF current = NoRect THEN <<>>
    ELSE << [page |-> current.page, x0 |-> current.x0, y0 |-> current.y0,
             x1 |-> current.x1, y1 |-> current.y1,
             members |-> current.members] >>

\* The dictionary {page_idx: [Rect, ...]} is kept as the sequence of its
\* rectangles in the order they were appended, each with its page.
get_quads_for_span(cs, start, end) ==
    IF start < 0 \/ end > Len(cs) \/ start >= end THEN <<>>
    ELSE
      LET f[i \in start..end] ==
              IF i = start THEN [rects |-> <<>>, current |-> NoRect]
              ELSE LET acc == f[i - 1]
                       ci  == cs[i]        \* chars[i - 1] of the source
                       c   == acc.current
                   IN  IF IsSkipped(ci) THEN acc
                       ELSE IF same_line(c, ci)
                       THEN [acc EXCEPT !.current =
                                [c EXCEPT !.x1 = Max(c.x1, ci.x1),
                                          !.y1 = Max(c.y1, ci.y1),
                                          !.x0 = Min(c.x0, ci.x0),
                                          !.y0 = Min(c.y0, ci.y0),
                                          !.members = c.members \cup {i - 1}]]
                       ELSE [rects   |-> acc.rects \o Flushed(c),
                             current |-> [page |-> ci.page_idx,
                                          current_y0 |-> ci.y0,
                                          x0 |-> ci.x0, y0 |-> ci.y0,
                                          x1 |-> ci.x1, y1 |-> ci.y1,
                                          members |-> {i - 1}]]
      IN  f[end].rects \o Flushed(f[end].current)

(***************************************************************************)
(* Character maps.  A glyph of the model sits on line `y0` of page         *)
(* `page_idx`; its horizontal place follows from its offset.               *)
(***************************************************************************)
MaxChars == 3

Glyph(page_idx, y0, char, i) ==
    CharInfo(page_idx, 10 * i, y0, 10 * i + 8, y0 + 10, char)

QuadLines == { <<0, 99>>, <<0, 100>>, <<0, 101>>, <<0, 200>>, <<1, 100>> }

QuadChars(i) ==
    { Glyph(l[1], l[2], "A", i) : l \in QuadLines } \cup { dummy(0) }

CharMaps(Kind(_), n) ==
    UNION { { cs \in [1..k -> UNION { Kind(i) : i \in 1..k }] :
                \A i \in 1..k : cs[i] \in Kind(i) } : k \in 1..n }

InitQuads ==
    /\ chars \in CharMaps(QuadChars, MaxChars)
    /\ q_start = 0 /\ q_end = 0 /\ page_rects = <<>>
    /\ pdf_conf = <<>> /\ pdf_hits = <<>> /\ hit_pos = 0 /\ annots = <<>>
    /\ stats = <<>> /\ pdf_pc = "closed" /\ doc_open = FALSE
    /\ OnlyQuadsRun

GetQuadsForSpan ==
    /\ pdf_pc \in {"closed", "quads"}
    /\ \E start \in -1..Len(chars), end \in 0..(Len(chars) + 1) :
          /\ q_start' = start
          /\ q_end' = end
          /\ page_rects' = get_quads_for_span(chars, start, end)
    /\ pdf_pc' = "quads"
    /\ UNCHANGED <<chars, pdf_conf, pdf_hits, hit_pos, annots, stats, doc_open>>
    /\ OnlyQuadsChange

NextQuads == GetQuadsForSpan

SpecQuads == InitQuads /\ [][NextQuads]_vars

(***************************************************************************)
(* Claims about _get_quads_for_span.                                       *)
(***************************************************************************)
QuadsReturned == pdf_pc = "quads"

ValidSpan == 0 <= q_start /\ q_start < q_end /\ q_end <= Len(chars)

SpanOffsets == IF ValidSpan THEN q_start..(q_end - 1) ELSE {}

CharAt(i) == chars[i + 1]

RealOffsets == { i \in SpanOffsets : ~IsSkipped(CharAt(i)) }

RectsOf(i) == { k \in 1..Len(page_rects) : i \in page_rects[k].members }

Together(i, j) == RectsOf(i) \cap RectsOf(j) # {}

Anchor(k) == CharAt(CHOOSE i \in page_rects[k].members :
                       \A j \in page_rects[k].members : i <= j)

SameLine(a, b) ==
    a.page_idx = b.page_idx /\ Abs(a.y0 - b.y0) < SAME_LINE_TOLERANCE

\* Every real character of the span is in exactly one rectangle, a
\* placeholder in none, and nothing outside the span in any.
MembersAreTheRealChars ==
    /\ \A i \in RealOffsets : Cardinality(RectsOf(i)) = 1
    /\ \A k \in 1..Len(page_rects) : page_rects[k].members \subseteq RealOffsets

\* Two adjacent characters within one point of y=100, then one at y=200.
NearY100(ci) == ci.page_idx = 0 /\ ci.y0 \in {99, 100, 101} /\ ~IsSkipped(ci)

TwoLinesExample ==
    /\ Len(chars) = 3 /\ q_start = 0 /\ q_end = 3
    /\ NearY100(chars[1]) /\ NearY100(chars[2])
    /\ chars[3].page_idx = 0 /\ chars[3].y0 = 200

\* The same, with the two characters at most one point apart.
TwoLinesExampleOnePointApart ==
    TwoLinesExample /\ Abs(chars[1].y0 - chars[2].y0) <= 1

\* C11 as stated: within one hit two characters share a rectangle only if
\* they are on the same page and their vertical positions differ by less
\* than the tolerance, characters on different pages or further apart
\* never share one, placeholders are in no rectangle, and two adjacent
\* characters at y=100+-1 followed by one at y=200 give two rectangles.
C11_SameRectangleOnlyWithinTolerance ==
    QuadsReturned =>
        /\ MembersAreTheRealChars
        /\ \A i, j \in RealOffsets :
              Together(i, j) => SameLine(CharAt(i), CharAt(j))
        /\ TwoLinesExample => Len(page_rects) = 2

\* C11, amended: a rectangle holds a run of consecutive real characters
\* that are on the page of the run's first character and less than the
\* tolerance away from the vertical position of that first character; the
\* run ends at the first real character that is on another page or at
\* least the tolerance away from it; placeholders are in no rectangle; two
\* adjacent characters at most one point apart near y=100 followed by one
\* at y=200 give exactly two rectangles.
C11_RectanglesFollowFirstCharacter ==
    QuadsReturned =>
        /\ MembersAreTheRealChars
        /\ ~ValidSpan => page_rects = <<>>
        /\ \A k \in 1..Len(page_rects) :
              /\ page_rects[k].members # {}
              /\ page_rects[k].page = Anchor(k).page_idx
              /\ \A i \in page_rects[k].members :
                    SameLine(Anchor(k), CharAt(i))
              /\ \A i \in RealOffsets :
                    (\E a, b \in page_rects[k].members : a <= i /\ i <= b)
                        => i \in page_rects[k].members
        /\ \A k \in 1..(Len(page_rects) - 1) :
              /\ \A i \in page_rects[k].members,
                    j \in page_rects[k + 1].members : i < j
              /\ ~SameLine(Anchor(k), Anchor(k + 1))
        /\ TwoLinesExampleOnePointApart => Len(page_rects) = 2

\* A rectangle whose characters drift: the first at y=100, others at 99
\* and 101, all within the tolerance of the first but not of each other.
C11_Witness ==
    /\ QuadsReturned
    /\ \E k \in 1..Len(page_rects) :
          \E i, j \in page_rects[k].members :
              Abs(CharAt(i).y0 - CharAt(j).y0) >= SAME_LINE_TOLERANCE

C11_ExampleWitness ==
    QuadsReturned /\ TwoLinesExampleOnePointApart /\ Len(page_rects) = 2

(***************************************************************************)
(* pipelines/pdf_pipeline.py: process_pdf_file.  The document is open and  *)
(* its text extracted; the engine runs on the extracted text and the       *)
(* redaction loop goes through the report's hits one by one.  The warnings *)
(* about the share of Japanese text and the padding of the rectangles are  *)
(* left out: no hit depends on them.                                       *)
(***************************************************************************)
MaxSearchRects == 2

\* page.search_for(term) over all pages: how many rectangles it can find.
SearchResults == 0..MaxSearchRects

PdfConfs ==
    { [max_rects_per_term |-> 1, min_term_length |-> 2],
      [max_rects_per_term |-> 50, min_term_length |-> 2] }

PdfChars(i) ==
    { Glyph(0, 100, "A", i), Glyph(0, 200, "B", i),
      CharInfo(0, 0, 0, 0, 0, "A"), dummy(0) }

PdfPolicy == CHOOSE p \in Policies : p.allowlist # <<>>

AllSpans(n) == { <<s, e>> \in (0..n) \X (0..n) : s < e }

\* What the detector and the reviewer contribute: at most one result on the
\* first character, a PERSON or a contract party, and at most one forced span.
PdfDetections(t) ==
    { <<>> } \cup
    { << [start |-> 0, end |-> 1, entity_type |-> e, score |-> 85,
          rec |-> 1] >> : e \in {"PERSON", "PARTIES"} }

PdfForced(t) ==
    { <<>> } \cup
    { << [start |-> sp[1], end |-> sp[2], entity_type |-> "CUSTOM",
          label |-> NoLabel] >> : sp \in AllSpans(Len(t)) }

InitPdf ==
    /\ chars \in CharMaps(PdfChars, MaxChars)
    /\ text = [i \in 1..Len(chars) |-> chars[i].char]
    /\ policy = PdfPolicy
    /\ nlp_available = TRUE
    /\ analyzer_results \in PdfDetections(text)
    /\ runtime \in { RuntimeOverrides(<<>>, fm, <<>>) : fm \in PdfForced(text) }
    /\ pc = "configured"
    /\ report = NoReport
    /\ label_state = EmptyLabelState
    /\ prev_counters = <<>>
    /\ pdf_conf \in PdfConfs
    /\ q_start = 0 /\ q_end = 0 /\ page_rects = <<>>
    /\ pdf_hits = <<>> /\ hit_pos = 0 /\ annots = <<>> /\ stats = <<>>
    /\ pdf_pc = "opened"
    /\ doc_open = TRUE
    /\ OnlyPdfRuns

NoStats ==
    [applied_rects |-> 0, coord_mapped |-> 0, search_fallback |-> 0,
     search_misses |-> 0, skipped_too_many |-> 0]

\* A hit of the report; the key review_flag is absent until the loop sets it.
PdfHit(h) ==
    [start |-> h.start, end |-> h.end, original |-> h.original,
     reason |-> h.reason, review_flag |-> FALSE]

\* Lines 245-262.
RunMaskingEngine ==
    /\ pdf_pc = "opened"
    /\ report' = mask_text_with_report(text, policy, nlp_available,
                                       analyzer_results, runtime,
                                       StableIdState_create)
    /\ label_state' = report'.state
    /\ prev_counters' = label_state.counters
    /\ pc' = "done"
    /\ pdf_hits' = [i \in 1..Len(report'.hits) |-> PdfHit(report'.hits[i])]
    /\ hit_pos' = 0
    /\ annots' = <<>>
    /\ stats' = NoStats
    /\ pdf_pc' = "loop"
    /\ UNCHANGED <<text, policy, nlp_available, analyzer_results, runtime,
                   chars, q_start, q_end, page_rects, pdf_conf, doc_open>>
    /\ OnlyPdfChanges

has_char_map == Len(chars) > 0 /\ Len(text) > 0

StartsWithKeep(reason) ==
    reason \in {"keep:parties", "keep:allowlist", "keep:money_no_context"}

InLoop == pdf_pc = "loop" /\ hit_pos < Len(pdf_hits)

ThisHit == pdf_hits[hit_pos + 1]

\* Lines 265-273: the hits the loop passes over at once.
PassedOver(h) ==
    StartsWithKeep(h.reason) \/ h.original = <<>> \/ h.start >= h.end

\* Line 276.
LookupApplies(h) ==
    has_char_map /\ h.start < Len(chars) /\ h.end <= Len(chars)

Lookup(h) ==
    IF LookupApplies(h) THEN get_quads_for_span(chars, h.start, h.end)
    ELSE <<>>

\* What every pass of the loop leaves behind, given the number of
\* rectangles it submitted and the hit as it stands afterwards.
NextHit(h, submitted, hit, st) ==
    /\ annots' = Append(annots, submitted)
    /\ pdf_hits' = [pdf_hits EXCEPT ![hit_pos + 1] = hit]
    /\ hit_pos' = hit_pos + 1
    /\ stats' = st
    /\ IF LookupApplies(h) /\ ~PassedOver(h)
       THEN /\ q_start' = h.start /\ q_end' = h.end
            /\ page_rects' = Lookup(h)
       ELSE UNCHANGED <<q_start, q_end, page_rects>>
    /\ UNCHANGED <<maskVars, chars, pdf_conf, pdf_pc, doc_open>>
    /\ OnlyPdfChanges

Flagged(h, reason) == [h EXCEPT !.review_flag = TRUE, !.reason = reason]

\* Lines 265-266 and 272-273.
SkipHit ==
    /\ InLoop
    /\ PassedOver(ThisHit)
    /\ NextHit(ThisHit, 0, ThisHit, stats)

\* Lines 276-300, the lookup gave rectangles within the cap.
RedactByCoordinates ==
    /\ InLoop
    /\ ~PassedOver(ThisHit)
    /\ Lookup(ThisHit) # <<>>
    /\ Len(Lookup(ThisHit)) <= pdf_conf.max_rects_per_term
    /\ NextHit(ThisHit, Len(Lookup(ThisHit)), ThisHit,
               [stats EXCEPT !.applied_rects = @ + Len(Lookup(ThisHit)),
                             !.coord_mapped = @ + 1])

\* Lines 282-286.
TooManyByCoordinates ==
    /\ InLoop
    /\ ~PassedOver(ThisHit)
    /\ Lookup(ThisHit) # <<>>
    /\ Len(Lookup(ThisHit)) > pdf_conf.max_rects_per_term
    /\ NextHit(ThisHit, 0, Flagged(ThisHit, "warning:pdf_too_many_hits"),
               [stats EXCEPT !.skipped_too_many = @ + 1])

FallsBack(h) == InLoop /\ ~PassedOver(h) /\ Lookup(h) = <<>>

TooShort(h) == Len(Strip(h.original)) < pdf_conf.min_term_length

\* Lines 303-305.
SkipShortTerm ==
    /\ FallsBack(ThisHit)
    /\ TooShort(ThisHit)
    /\ NextHit(ThisHit, 0, ThisHit, stats)

\* Lines 307-336: the text search, whose outcome the document decides.
SearchFor(found) == FallsBack(ThisHit) /\ ~TooShort(ThisHit) /\ found \in SearchResults

SearchFailed ==
    \E found \in SearchResults :
        /\ SearchFor(found)
        /\ found = 0
        /\ NextHit(ThisHit, 0, Flagged(ThisHit, "warning:pdf_search_failed"),
                   [stats EXCEPT !.search_misses = @ + 1])

TooManyBySearch ==
    \E found \in SearchResults :
        /\ SearchFor(found)
        /\ found > pdf_conf.max_rects_per_term
        /\ NextHit(ThisHit, 0, Flagged(ThisHit, "warning:pdf_too_many_hits"),
                   [stats EXCEPT !.skipped_too_many = @ + 1])

RedactBySearch ==
    \E found \in SearchResults :
        /\ SearchFor(found)
        /\ 0 < found /\ found <= pdf_conf.max_rects_per_term
        /\ NextHit(ThisHit, found, ThisHit,
                   [stats EXCEPT !.applied_rects = @ + found,
                                 !.search_fallback = @ + 1])

\* Lines 338-350.
SaveDocument ==
    /\ pdf_pc = "loop"
    /\ hit_pos = Len(pdf_hits)
    /\ pdf_pc' = "saved"
    /\ doc_open' = FALSE
    /\ UNCHANGED <<maskVars, chars, q_start, q_end, page_rects, pdf_conf,
                   pdf_hits, hit_pos, annots, stats>>
    /\ OnlyPdfChanges

NextPdf ==
    \/ RunMaskingEngine
    \/ SkipHit
    \/ RedactByCoordinates
    \/ TooManyByCoordinates
    \/ SkipShortTerm
    \/ SearchFailed
    \/ TooManyBySearch
    \/ RedactBySearch
    \/ SaveDocument

SpecPdf == InitPdf /\ [][NextPdf]_vars

(***************************************************************************)
(* Claims about process_pdf_file.                                          *)
(***************************************************************************)
Saved == pdf_pc = "saved"

MaskedHits == { i \in 1..Len(pdf_hits) : ~StartsWithKeep(report.hits[i].reason) }

IsWarning(reason) ==
    reason \in {"warning:pdf_too_many_hits", "warning:pdf_search_failed"}

Redacted(i) == annots[i] > 0

LeftFlagged(i) ==
    annots[i] = 0 /\ pdf_hits[i].review_flag /\ IsWarning(pdf_hits[i].reason)

\* C12: after process_pdf_file every hit whose reason does not start with
\* "keep" either had at least one redaction rectangle submitted for it or
\* was left unredacted with review_flag set and a warning reason, never
\* both and never neither.
C12_RedactedOrFlagged ==
    Saved => \A i \in MaskedHits : Redacted(i) # LeftFlagged(i)

\* What holds instead: a masked hit is redacted, flagged, or its lookup
\* gave nothing and its term is shorter than min_term_length.
SilentlySkipped(i) ==
    /\ annots[i] = 0
    /\ pdf_hits[i] = PdfHit(report.hits[i])
    /\ Lookup(pdf_hits[i]) = <<>>
    /\ TooShort(pdf_hits[i])

C12_SilentSkipIsTheOnlyGap ==
    Saved => \A i \in MaskedHits :
                 Redacted(i) \/ LeftFlagged(i) \/ SilentlySkipped(i)

C12_SilentSkipReached ==
    Saved /\ \E i \in MaskedHits : SilentlySkipped(i)

(***************************************************************************)
(* engine/masking_engine.py: _split_into_chunks.  A window is the pair     *)
(* (offset, chunk_text) of the source.                                     *)
(***************************************************************************)
\* text.rfind("\n", lo, hi): the last newline at an offset in [lo, hi), or -1.
rfind_newline(t, lo, hi) ==
    LET at == { i \in Max(lo, 0)..(Min(hi, Len(t)) - 1) : t[i + 1] = "nl" }
    IN  IF at = {} THEN -1 ELSE CHOOSE i \in at : \A j \in at : j <= i

\* A variant that always cuts at the ideal point.
chunk_end_at_ideal_cut(t, size, pos) == Min(pos + size, Len(t))

\* Lines 194-201: where the window that starts at pos ends.
chunk_end(t, size, pos) ==
    LET end      == Min(pos + size, Len(t))
        break_at == rfind_newline(t, pos + (size \div 2), end)
    IN  IF end < Len(t) /\ break_at > pos THEN break_at + 1 ELSE end

\* A variant without the guard of lines 207-208.
next_pos_without_guard(pos, end, ov) == end - ov

\* Lines 206-209.
next_pos(pos, end, ov) == IF end - ov <= pos THEN end ELSE end - ov

RECURSIVE chunks_from(_, _, _, _)
chunks_from(t, size, ov, pos) ==
    IF pos >= Len(t) THEN <<>>
    ELSE LET end == chunk_end(t, size, pos)
         IN  << [offset |-> pos, text |-> Slice(t, pos, end)] >>
             \o chunks_from(t, size, ov, next_pos(pos, end, ov))

split_into_chunks(t, size, ov) ==
    IF Len(t) <= size THEN << [offset |-> 0, text |-> t] >>
    ELSE chunks_from(t, size, ov, 0)

MaxTextLen == 4
MaxChunkSize == 3
MaxOverlap == 2

BigTexts ==
    UNION { [1..n -> {"a", "nl"}] : n \in 1..MaxTextLen }

InitSplit ==
    /\ big_text \in BigTexts
    /\ split_pos = 0
    /\ chunk_size \in 1..MaxChunkSize
    /\ overlap \in 0..MaxOverlap
    /\ chunks = <<>> /\ window = 0 /\ detector_log = <<>>
    /\ all_results = <<>> /\ deduped = <<>>
    /\ chunk_pc = "off"
    /\ OnlyChunksRun

SplitIntoChunks ==
    /\ chunk_pc = "off"
    /\ chunks' = split_into_chunks(big_text, chunk_size, overlap)
    /\ chunk_pc' = "split"
    /\ UNCHANGED <<split_pos, big_text, chunk_size, overlap, window, detector_log,
                   all_results, deduped>>
    /\ OnlyChunksChange

NextSplit == SplitIntoChunks

SpecSplit == InitSplit /\ [][NextSplit]_vars

(***************************************************************************)
(* Claims about _split_into_chunks.                                        *)
(***************************************************************************)
WasSplit == chunk_pc = "split" /\ Len(big_text) > chunk_size

WindowEnd(k) == chunks[k].offset + Len(chunks[k].text)

\* The offsets of the second half of the ideal range of window k.
SecondHalf(k) ==
    { i \in (chunks[k].offset + (chunk_size \div 2))
            ..(Min(chunks[k].offset + chunk_size, Len(big_text)) - 1) : TRUE }

NewlinesIn(S) == { i \in S : big_text[i + 1] = "nl" }

EndsAfterNewline(k) == big_text[WindowEnd(k)] = "nl"

GapFreeCover ==
    /\ chunks # <<>>
    /\ chunks[1].offset = 0
    /\ \A k \in 1..(Len(chunks) - 1) :
          /\ chunks[k + 1].offset <= WindowEnd(k)
          /\ chunks[k + 1].offset > chunks[k].offset
    /\ WindowEnd(Len(chunks)) = Len(big_text)
    /\ \A k \in 1..Len(chunks) :
          /\ chunks[k].text # <<>>
          /\ Len(chunks[k].text) <= chunk_size
          /\ chunks[k].text = Slice(big_text, chunks[k].offset, WindowEnd(k))

MaxWindowResults == 2

\* What a detector can report on one window, in the order it reports it.
PrimaryMenu(chunk_text) ==
    << [start |-> 0, end |-> 1, entity_type |-> "PERSON", score |-> 85],
       [start |-> 0, end |-> Len(chunk_text), entity_type |-> "COMPANY",
        score |-> 70],
       [start |-> 0, end |-> Len(chunk_text), entity_type |-> "PERSON",
        score |-> 85] >>

FallbackMenu(chunk_text) ==
    << [start |-> Len(chunk_text) - 1, end |-> Len(chunk_text),
        entity_type |-> "PHONE", score |-> 90, pattern |-> "phone"],
       [start |-> 0, end |-> 1, entity_type |-> "EMAIL", score |-> 90,
        pattern |-> "email"],
       [start |-> 0, end |-> Len(chunk_text), entity_type |-> "PHONE",
        score |-> 90, pattern |-> "phone"] >>

Reports(menu) ==
    { SubSeq(menu, 1, n) : n \in 0..Min(MaxWindowResults, Len(menu)) }

\* A variant that leaves the offsets local to the window.
not_rebased(r, chunk_offset, pattern) ==
    [start |-> r.start, end |-> r.end, entity_type |-> r.entity_type,
     score |-> r.score, source |-> "analyzer", pattern |-> pattern]

\* Lines 241-247 and 255-262: the dictionary appended to all_results.
rebased(r, chunk_offset, pattern) ==
    [start |-> r.start + chunk_offset, end |-> r.end + chunk_offset,
     entity_type |-> r.entity_type, score |-> r.score,
     source |-> "analyzer", pattern |-> pattern]

ChunkedTexts == { <<"a", "nl", "a", "a">>, <<"a", "a", "a">> }

ChunkedConfigs == { [size |-> 2, overlap |-> 1], [size |-> 2, overlap |-> 0] }

ChunkPolicy == CHOOSE p \in Policies : DictGet(p.entity_priority, "PERSON", 0) = 2

InitChunked ==
    /\ big_text \in ChunkedTexts
    /\ split_pos = 0
    /\ \E conf \in ChunkedConfigs :
          chunk_size = conf.size /\ overlap = conf.overlap
    /\ chunks = <<>> /\ window = 0 /\ detector_log = <<>>
    /\ all_results = <<>> /\ deduped = <<>>
    /\ chunk_pc = "off"
    /\ text = <<>> /\ policy = ChunkPolicy /\ nlp_available = TRUE
    /\ analyzer_results = <<>> /\ runtime = <<>> /\ pc = "off"
    /\ report = <<>> /\ label_state = <<>> /\ prev_counters = <<>>
    /\ SegmentsIdle /\ SpliceIdle /\ PdfIdle /\ GuiIdle /\ DocxIdle /\ CellIdle /\ IterIdle /\ PayloadIdle

\* Lines 225-231.
StartChunked ==
    /\ chunk_pc = "off"
    /\ chunks' = split_into_chunks(big_text, chunk_size, overlap)
    /\ chunk_pc' = "windows"
    /\ UNCHANGED <<split_pos, big_text, chunk_size, overlap, window, detector_log,
                   all_results, deduped>>
    /\ OnlyChunksChange

AtWindow == chunk_pc = "windows" /\ window < Len(chunks)

ThisWindow == chunks[window + 1]

\* One pass of the loop at line 233.
WindowDone(outcome, found, contributed) ==
    /\ all_results' = all_results \o contributed
    /\ detector_log' = Append(detector_log,
                              [offset |-> ThisWindow.offset,
                               outcome |-> outcome, found |-> found])
    /\ window' = window + 1
    /\ UNCHANGED <<split_pos, big_text, chunk_size, overlap, chunks, deduped, chunk_pc>>
    /\ OnlyChunksChange

\* Lines 235-247: the primary analysis returns.
AnalyzeWindow ==
    /\ AtWindow
    /\ \E results \in Reports(PrimaryMenu(ThisWindow.text)) :
          LET merged == merge_overlaps(policy, results)
          IN  WindowDone("primary", results,
                         [i \in 1..Len(merged) |->
                             rebased(merged[i], ThisWindow.offset, None)])

\* Lines 248-262: the primary analysis raises, the pattern detector returns.
FallBackForWindow ==
    /\ AtWindow
    /\ \E fast_results \in Reports(FallbackMenu(ThisWindow.text)) :
          WindowDone("fallback", fast_results,
                     [i \in 1..Len(fast_results) |->
                         rebased(fast_results[i], ThisWindow.offset,
                                 fast_results[i].pattern)])

\* Lines 263-264: both raise.
GiveUpWindow ==
    /\ AtWindow
    /\ WindowDone("none", <<>>, <<>>)

\* Lines 266-287; the sweep is the one of _merge_overlaps.
Deduplicate ==
    /\ chunk_pc = "windows"
    /\ window = Len(chunks)
    /\ deduped' = merge_overlaps(policy, all_results)
    /\ chunk_pc' = "returned"
    /\ UNCHANGED <<split_pos, big_text, chunk_size, overlap, chunks, window,
                   detector_log, all_results>>
    /\ OnlyChunksChange

NextChunked ==
    \/ StartChunked
    \/ AnalyzeWindow
    \/ FallBackForWindow
    \/ GiveUpWindow
    \/ Deduplicate

SpecChunked == InitChunked /\ [][NextChunked]_vars

(***************************************************************************)
(* Claims about _analyze_chunked.                                          *)
(***************************************************************************)
\* What window k owes to all_results, read off the detectors' log: the
\* results of the detector that answered, moved by the window's offset.
Moved(r, k) ==
    [start |-> r.start + chunks[k].offset, end |-> r.end + chunks[k].offset,
     entity_type |-> r.entity_type, score |-> r.score]

Owed(k) ==
    LET l == detector_log[k]
        answered == IF l.outcome = "primary"
                    THEN merge_overlaps(policy, l.found)
                    ELSE l.found
    IN  [i \in 1..Len(answered) |-> Moved(answered[i], k)]

RECURSIVE OwedUpTo(_)
OwedUpTo(k) == IF k = 0 THEN <<>> ELSE OwedUpTo(k - 1) \o Owed(k)

Bare(r) ==
    [start |-> r.start, end |-> r.end, entity_type |-> r.entity_type,
     score |-> r.score]

FromPatterns(r) == r.pattern # None

\* C13: whichever windows see their primary analysis raise, the windows
\* are gone through in their original order, a failed window contributes
\* the pattern detector's candidates moved by the window's offset and none
\* of the primary ones, a window where both detectors fail contributes
\* nothing, every other window contributes its own candidates, and the call
\* returns with all windows done.
C13_FailedWindowsAreIsolated ==
    chunk_pc \in {"windows", "returned"} =>
        /\ Len(detector_log) = window
        /\ window <= Len(chunks)
        /\ \A k \in 1..window : detector_log[k].offset = chunks[k].offset
        /\ [i \in 1..Len(all_results) |-> Bare(all_results[i])]
               = OwedUpTo(window)
        /\ \A i \in 1..Len(all_results) :
              \E k \in 1..window :
                  /\ all_results[i].start >= chunks[k].offset
                  /\ FromPatterns(all_results[i])
                         <=> detector_log[k].outcome = "fallback"
                  /\ \E j \in 1..Len(detector_log[k].found) :
                         Bare(all_results[i]) = Moved(detector_log[k].found[j], k)
        /\ chunk_pc = "returned" =>
              /\ window = Len(chunks)
              /\ deduped = merge_overlaps(policy, all_results)

\* A run with a window served by the pattern detector at a non-zero offset
\* between two windows served by the primary one, and a window that
\* contributed nothing.
C13_Witness ==
    /\ chunk_pc = "returned"
    /\ \E a, b, c \in 1..window :
          /\ a < b /\ b < c
          /\ detector_log[a].outcome = "primary" /\ detector_log[a].found # <<>>
          /\ detector_log[b].outcome = "fallback" /\ detector_log[b].found # <<>>
          /\ chunks[b].offset > 0
          /\ detector_log[c].outcome = "primary" /\ detector_log[c].found # <<>>
    /\ \E d \in 1..window : detector_log[d].outcome = "none"

(***************************************************************************)
(* gui_app.py: the worker threads of _execute and _save on the one engine  *)
(* of the application.  A worker is followed through its writes to the     *)
(* engine and through the reads mask_text_with_report makes of the shared  *)
(* fields; the threads interleave between any two of these steps, and the  *)
(* main thread goes on serving the user meanwhile.                         *)
(***************************************************************************)
\* One worker started by _execute and one started by _save.
Workers == {"execute", "save"}

\* The one detection on screen: switched off by the user, or given a label
\* by the user.
UiDetection == [start |-> 0, end |-> 1, entity_type |-> "PERSON"]

UiStates ==
    [detection : {"kept", "relabelled"}, use_blackout : BOOLEAN]

collect_runtime_overrides(u) ==
    [once_allowlist |-> <<>>,
     forced_masks |->
        IF u.detection = "relabelled"
        THEN << [start |-> UiDetection.start, end |-> UiDetection.end,
                 entity_type |-> UiDetection.entity_type,
                 label |-> <<"X">>, reason |-> "forced:ui_override"] >>
        ELSE <<>>,
     keep_spans |->
        IF u.detection = "kept"
        THEN << [start |-> UiDetection.start, end |-> UiDetection.end] >>
        ELSE <<>>]

NothingSeen ==
    [once_allowlist |-> <<>>, forced_masks |-> <<>>, keep_spans |-> <<>>,
     mode |-> ""]

NothingInstalled == [runtime |-> NoRuntime, mode |-> ""]

InitGui ==
    /\ ui \in UiStates
    /\ wpc = [t \in Workers |-> "idle"]
    /\ installed = [t \in Workers |-> NothingInstalled]
    /\ seen = [t \in Workers |-> NothingSeen]
    /\ policy \in { p \in Policies : p.allowlist = <<>> /\ p.mode = "LABEL" }
    /\ runtime = NoRuntime
    /\ text = <<>> /\ nlp_available = TRUE /\ analyzer_results = <<>>
    /\ pc = "idle" /\ report = NoReport /\ label_state = EmptyLabelState
    /\ prev_counters = <<>>
    /\ OnlyGuiRuns

EngineUntouched ==
    UNCHANGED <<text, nlp_available, analyzer_results, pc, report,
                label_state, prev_counters>>

\* The user edits the detection list or the output mode (main thread).
UserEdits ==
    /\ \E u \in UiStates : u # ui /\ ui' = u
    /\ UNCHANGED <<wpc, installed, seen, policy, runtime>>
    /\ EngineUntouched
    /\ OnlyGuiChanges

Goes(t, from, to) == wpc[t] = from /\ wpc' = [wpc EXCEPT ![t] = to]

\* Line 656 (791): the user presses a button and a worker starts.  Nothing
\* holds a second press back while the first worker runs.
StartWorker(t) ==
    /\ Goes(t, "idle", "started")
    /\ UNCHANGED <<ui, installed, seen, policy, runtime>>
    /\ EngineUntouched
    /\ OnlyGuiChanges

\* Lines 579-580 (694-695).
WriteMode(t) ==
    /\ Goes(t, "started", "mode_written")
    /\ policy' = [policy EXCEPT !.mode = IF ui.use_blackout THEN "BLACK"
                                         ELSE "LABEL"]
    /\ installed' = [installed EXCEPT ![t].mode = policy'.mode]
    /\ UNCHANGED <<ui, seen, runtime>>
    /\ EngineUntouched
    /\ OnlyGuiChanges

\* Lines 583-588 (697-702).
WriteOverrides(t) ==
    /\ Goes(t, "mode_written", "configured")
    /\ LET c == collect_runtime_overrides(ui)
       IN  runtime' = RuntimeOverrides(c.once_allowlist, c.forced_masks,
                                       c.keep_spans)
    /\ installed' = [installed EXCEPT ![t].runtime = runtime']
    /\ UNCHANGED <<ui, seen, policy>>
    /\ EngineUntouched
    /\ OnlyGuiChanges

Reads(t, to, field, value) ==
    /\ wpc' = [wpc EXCEPT ![t] = to]
    /\ seen' = [seen EXCEPT ![t][field] = value]
    /\ UNCHANGED <<ui, installed, policy, runtime>>
    /\ EngineUntouched
    /\ OnlyGuiChanges

\* mask_text_with_report, line 314.
ReadOnceAllowlist(t) ==
    /\ wpc[t] = "configured"
    /\ Reads(t, "allowlist_read", "once_allowlist", runtime.once_allowlist)

\* Line 372.
ReadForcedMasks(t) ==
    /\ wpc[t] = "allowlist_read"
    /\ Reads(t, "forced_read", "forced_masks", runtime.forced_masks)

\* Line 416.
ReadKeepSpans(t) ==
    /\ wpc[t] = "forced_read"
    /\ Reads(t, "keep_read", "keep_spans", runtime.keep_spans)

\* Lines 432-433.
ReadMode(t) ==
    /\ wpc[t] = "keep_read"
    /\ Reads(t, "ran", "mode", policy.mode)

\* The worker ends; the model forgets what it wrote and read.
FinishWorker(t) ==
    /\ Goes(t, "ran", "idle")
    /\ installed' = [installed EXCEPT ![t] = NothingInstalled]
    /\ seen' = [seen EXCEPT ![t] = NothingSeen]
    /\ UNCHANGED <<ui, policy, runtime>>
    /\ EngineUntouched
    /\ OnlyGuiChanges

NextGui ==
    \/ UserEdits
    \/ \E t \in Workers : StartWorker(t)
    \/ \E t \in Workers : WriteMode(t)
    \/ \E t \in Workers : WriteOverrides(t)
    \/ \E t \in Workers : ReadOnceAllowlist(t)
    \/ \E t \in Workers : ReadForcedMasks(t)
    \/ \E t \in Workers : ReadKeepSpans(t)
    \/ \E t \in Workers : ReadMode(t)
    \/ \E t \in Workers : FinishWorker(t)

SpecGui == InitGui /\ [][NextGui]_vars

(***************************************************************************)
(* Claims about the runs started from the GUI.                             *)
(***************************************************************************)
HasRead(t, field) ==
    CASE field = "once_allowlist" ->
             wpc[t] \in {"allowlist_read", "forced_read", "keep_read", "ran"}
      [] field = "forced_masks" -> wpc[t] \in {"forced_read", "keep_read", "ran"}
      [] field = "keep_spans" -> wpc[t] \in {"keep_read", "ran"}
      [] field = "mode" -> wpc[t] = "ran"

\* C15: under every interleaving of the workers, what one execution of
\* mask_text_with_report reads of the once-allowlist, the forced masks,
\* the keep spans and the output mode is what the same run installed at
\* its start.
C15_RunSeesOnlyItsOwnOverrides ==
    \A t \in Workers :
        /\ \A field \in {"once_allowlist", "forced_masks", "keep_spans"} :
              HasRead(t, field) => seen[t][field] = installed[t].runtime[field]
        /\ HasRead(t, "mode") => seen[t].mode = installed[t].mode

\* A run that read the forced masks of its own call and the keep spans of
\* another worker's call.
C15_MixedRead ==
    \E t \in Workers :
        /\ wpc[t] = "ran"
        /\ seen[t].forced_masks = installed[t].runtime.forced_masks
        /\ seen[t].keep_spans # installed[t].runtime.keep_spans

(***************************************************************************)
(* SpecReview: runs whose candidates cover the cases of the review rule    *)
(* and of the party markers: scores of 0, below and above the threshold, a *)
(* monetary amount without context, a party marker found by the detector,  *)
(* and forced masks, one of them on a party marker (MASK_ONCE).            *)
(***************************************************************************)
MaxReviewItems == 2

ReviewText == <<"A", "sp", "B", "FA">>

\* The detector reports in the order of `rec`.
ReviewDetections ==
    { [start |-> 0, end |-> 1, entity_type |-> "PERSON", score |-> sc,
       rec |-> sc] : sc \in {0, 70, 85} }
    \cup { [start |-> 2, end |-> 3, entity_type |-> "MONEY", score |-> 85,
            rec |-> 90] }
    \cup { [start |-> 3, end |-> 4, entity_type |-> "PARTIES", score |-> sc,
            rec |-> 100 + sc] : sc \in {0, 85} }

ReviewForcedMasks ==
    { [start |-> 0, end |-> 1, entity_type |-> "CUSTOM", label |-> NoLabel],
      [start |-> 3, end |-> 4, entity_type |-> "PARTIES", label |-> NoLabel],
      [start |-> 3, end |-> 4, entity_type |-> "PARTIES", label |-> <<"X">>] }

InitReview ==
    /\ text = ReviewText
    /\ \E S \in SUBSET ReviewDetections :
          /\ Cardinality(S) <= MaxReviewItems
          /\ analyzer_results = SortedByKey(SetToSeq(S), DetectionOrder)
    /\ InitEngine

SetOverridesReview ==
    /\ pc = "idle"
    /\ \E fm \in {<<>>} \cup { <<m>> : m \in ReviewForcedMasks } :
          /\ Len(analyzer_results) + Len(fm) <= MaxReviewItems
          /\ set_runtime_overrides(<<>>, fm, <<>>)

NextReview == SetOverridesReview \/ MaskTextWithReport

SpecReview == InitReview /\ [][NextReview]_vars

(***************************************************************************)
(* Claims about the review list.                                           *)
(***************************************************************************)
BelowThreshold(h) == h.score < policy.review_threshold

ToReview(h) ==
    BelowThreshold(h) \/ h.source = "forced"
        \/ h.reason = "keep:money_no_context"

InReviewList(h) == \E i \in 1..Len(report.review) : report.review[i] = Flagged_h2(h)

\* C16: every hit whose score is below the review threshold (0 included),
\* whose source is forced or whose reason is the money-no-context
\* pass-through is in the review list with review_flag set, and
\* summary.review_hits is the number of these hits.
C16_AllLowScoresReviewed ==
    Done =>
        /\ \A i \in 1..Len(Hits) : ToReview(Hits[i]) => InReviewList(Hits[i])
        /\ report.summary.review_hits
               = Cardinality({ i \in 1..Len(Hits) : ToReview(Hits[i]) })

\* What holds instead: a score of 0 counts as no score.
C16_AllButZeroScoresReviewed ==
    Done =>
        /\ \A i \in 1..Len(Hits) :
              InReviewList(Hits[i])
                  <=> \/ (BelowThreshold(Hits[i]) /\ Hits[i].score # 0)
                      \/ Hits[i].source = "forced"
                      \/ Hits[i].reason = "keep:money_no_context"
        /\ report.summary.review_hits = Len(report.review)
        /\ \A i \in 1..Len(report.review) : report.review[i].review_flag

C16_ZeroScoreNotReviewed ==
    /\ Done
    /\ \E i \in 1..Len(Hits) :
          /\ Hits[i].score = 0 /\ Hits[i].source # "forced"
          /\ ~InReviewList(Hits[i])

(***************************************************************************)
(* Claims about party markers.                                             *)
(***************************************************************************)
PassesThrough(h) == h.replacement = h.original

\* C17 as stated: every PARTIES hit passes through unchanged, in LABEL and
\* in BLACK mode and whatever its provenance.
C17_EveryPartyMarkerPassesThrough ==
    Done => \A i \in 1..Len(Hits) :
                Hits[i].entity_type = "PARTIES" => PassesThrough(Hits[i])

\* C17, amended: a PARTIES hit that is not forced passes through unchanged
\* with reason keep:parties in both modes; a forced mask of type PARTIES is
\* replaced like every forced mask, by its label, a stable label or the
\* filler.
C17_DetectedPartyMarkerPassesThrough ==
    Done => \A i \in 1..Len(Hits) :
                Hits[i].entity_type = "PARTIES" =>
                    IF Hits[i].source # "forced"
                    THEN PassesThrough(Hits[i]) /\ Hits[i].reason = "keep:parties"
                    ELSE /\ ~PassesThrough(Hits[i])
                         /\ Hits[i].reason = "forced:mask_once"

\* A run in BLACK mode that lets a detected party marker through, and one
\* that masks a forced one.
C17_Witness ==
    /\ Done
    /\ policy.mode = "BLACK"
    /\ \E i \in 1..Len(Hits) :
          /\ Hits[i].entity_type = "PARTIES"
          /\ Hits[i].source # "forced"
          /\ PassesThrough(Hits[i])

C17_ForcedPartyMarkerMasked ==
    /\ Done
    /\ \E i \in 1..Len(Hits) :
          /\ Hits[i].entity_type = "PARTIES"
          /\ Hits[i].source = "forced"
          /\ ~PassesThrough(Hits[i])

(***************************************************************************)
(* SpecExpand: runs on texts that open with a corporate designator which   *)
(* the detector reports, alone, as a COMPANY.                              *)
(***************************************************************************)
MaxTail == 3

Designator == <<"(", "Kabu", ")">>

TailChars == {"A", "sp", "nl", ","}

ExpandTexts ==
    { Designator \o tail :
        tail \in UNION { [1..n -> TailChars] : n \in 0..MaxTail } }

DesignatorFound ==
    << [start |-> 0, end |-> Len(Designator), entity_type |-> "COMPANY",
        score |-> 85, rec |-> 1] >>

InitExpand ==
    /\ text \in ExpandTexts
    /\ analyzer_results = DesignatorFound
    /\ InitEngine

SetOverridesExpand ==
    /\ pc = "idle"
    /\ set_runtime_overrides(<<>>, <<>>, <<>>)

NextExpand == SetOverridesExpand \/ MaskTextWithReport

SpecExpand == InitExpand /\ [][NextExpand]_vars

(***************************************************************************)
(* Claims about the expansion of a designator.                             *)
(***************************************************************************)
ExpandedHits ==
    { i \in 1..Len(Hits) :
        Hits[i].entity_type = "COMPANY" /\ Hits[i].source # "forced" }

Added(h) ==
    { i \in h.start..(h.end - 1) : i < 0 \/ i >= Len(Designator) }

\* C18: a non-forced COMPANY hit that covered only a designator is
\* expanded over non-boundary characters only: the expansion stops at the
\* first punctuation, bracket or whitespace character (a newline included),
\* the expanded span holds no boundary character outside the original span
\* and at most 80 characters are added.
C18_ExpansionHoldsNoBoundary ==
    Done => \A k \in ExpandedHits :
                /\ \A i \in Added(Hits[k]) : text[i + 1] \notin boundaries
                /\ Cardinality(Added(Hits[k])) <= ExpandMaxLen
                /\ Hits[k].end = Len(text) \/ text[Hits[k].end + 1] \in boundaries

\* What holds instead: the characters added are a run of blanks, tabs and
\* line ends of any length followed by non-boundary characters.
C18_ExpansionMaySkipWhitespace ==
    Done => \A k \in ExpandedHits :
                LET h == Hits[k]
                IN  /\ h.start = 0
                    /\ \E m \in Len(Designator)..h.end :
                          /\ \A i \in Len(Designator)..(m - 1) :
                                text[i + 1] \in AsciiSpace
                          /\ \A i \in m..(h.end - 1) :
                                text[i + 1] \notin boundaries
                          /\ h.end - m <= ExpandMaxLen
                    /\ h.end = Len(text) \/ text[h.end + 1] \in boundaries

C18_NewlineInsideExpandedHit ==
    /\ Done
    /\ \E k \in ExpandedHits :
          \E i \in Added(Hits[k]) :
              /\ text[i + 1] = "nl"
              /\ \E j \in Added(Hits[k]) : j > i /\ text[j + 1] = "A"

-----------------------------------------------------------------------------
(* pipelines/docx_pipeline.py                                              *)

\* extract_docx_segments as one call: the traversal of Visits(d) from the
\* empty state, container k being the k-th visited.
RECURSIVE visit_from(_, _, _)
visit_from(st, vs, k) ==
    IF k > Len(vs) THEN st
    ELSE visit_from(IF NoSegment(vs[k].text) THEN st
                    ELSE add_seg(st, vs[k].kind, k, vs[k].text),
                    vs, k + 1)

extract_docx_segments(d) ==
    visit_from([segments |-> <<>>, buf |-> <<>>, cur |-> 0, idx |-> 0],
               Visits(d), 1)

\* Lines 31-33: the intersection of the hit with the segment is not empty.
Intersects(hit, seg) ==
    Max(hit.start, seg.global_start) < Min(hit.end, seg.global_end)

\* Lines 34-41.
MapEntry(hit, seg) ==
    [seg_id      |-> seg.seg_id,
     local_start |-> Max(hit.start, seg.global_start) - seg.global_start,
     local_end   |-> Min(hit.end, seg.global_end) - seg.global_start,
     overlap     |-> ~(hit.start >= seg.global_start /\ hit.end <= seg.global_end)]

\* A mapping that stops at the first segment the hit touches.
map_hit_to_first_segment(hit, segs) ==
    LET touches(seg) == Intersects(hit, seg)
        touched      == SelectSeq(segs, touches)
    IN  IF touched = <<>> THEN <<>> ELSE << MapEntry(hit, touched[1]) >>

map_hit_to_segments(hit, segs) ==
    LET touches(seg) == Intersects(hit, seg)
        touched      == SelectSeq(segs, touches)
    IN  [i \in 1..Len(touched) |-> MapEntry(hit, touched[i])]

is_black_replacement(repl) == repl # <<>> /\ Range(repl) = {BLACK_CHAR}

piece_replacement(full_repl, piece_len) ==
    IF is_black_replacement(full_repl)
    THEN Repeat(BLACK_CHAR, Max(0, piece_len))
    ELSE full_repl

\* Lines 88-96: the triples of one hit.
Triples(h, maps) ==
    [i \in 1..Len(maps) |->
        [seg_id      |-> maps[i].seg_id,
         local_start |-> maps[i].local_start,
         local_end   |-> maps[i].local_end,
         replacement |-> piece_replacement(h.replacement,
                             maps[i].local_end - maps[i].local_start)]]

\* The most body paragraphs of a document.
MaxDocxParagraphs == 2

DocxParagraphs == { <<>>, <<"A">>, <<"A", "B">> }

DocxDocs ==
    { [sections |-> <<>>, paragraphs |-> ps, cells |-> <<>>] :
        ps \in UNION { [1..n -> DocxParagraphs] : n \in 1..MaxDocxParagraphs } }

DocxPolicies == { p \in Policies : p.allowlist = <<>> }

\* What the detector reports: nothing, or a PERSON or a contract party on a
\* leading "A".
DocxDetections(t) ==
    { <<>> } \cup
    { << [start |-> 0, end |-> 1, entity_type |-> e, score |-> 85,
          rec |-> 1] >> : e \in IF t # <<>> /\ t[1] = "A"
                                THEN {"PERSON", "PARTIES"} ELSE {} }

\* What the reviewer forced: nothing or one span of the text, the separators
\* included.
DocxForced(t) ==
    { <<>> } \cup
    { << [start |-> sp[1], end |-> sp[2], entity_type |-> "CUSTOM",
          label |-> NoLabel] >> : sp \in AllSpans(Len(t)) }

InitDocx ==
    /\ doc \in DocxDocs
    /\ seg_pos = 0 /\ segments = <<>> /\ buf = <<>> /\ cur = 0 /\ idx = 0
    /\ full_text = <<>> /\ seg_pc = "extract"
    /\ text = <<>>
    /\ policy \in DocxPolicies
    /\ nlp_available = TRUE
    /\ analyzer_results = <<>>
    /\ runtime \in { RuntimeOverrides(<<>>, fm, <<>>) :
                       fm \in DocxForced(Concat(extract_docx_segments(doc).buf)) }
    /\ pc = "configured"
    /\ report = NoReport
    /\ label_state = EmptyLabelState
    /\ prev_counters = <<>>
    /\ docx_hits = <<>> /\ docx_pos = 0 /\ docx_maps = <<>>
    /\ docx_pc = "opened"
    /\ SpliceIdle /\ PdfIdle /\ ChunksIdle /\ GuiIdle /\ CellIdle /\ IterIdle /\ PayloadIdle

OnlyDocxChanges == UNCHANGED <<spliceVars, pdfVars, chunkVars, guiVars, cellVars, iterVars, payload>>

\* A hit of the report; the key review_flag is absent until the loop sets it.
DocxHit(h) ==
    [start |-> h.start, end |-> h.end, replacement |-> h.replacement,
     reason |-> h.reason, review_flag |-> FALSE]

\* Lines 59-67.
ExtractAndMask ==
    /\ docx_pc = "opened"
    /\ LET ex == extract_docx_segments(doc)
       IN  /\ segments' = ex.segments
           /\ buf' = ex.buf
           /\ cur' = ex.cur
           /\ idx' = ex.idx
           /\ full_text' = Concat(ex.buf)
    /\ seg_pos' = Len(Visits(doc))
    /\ seg_pc' = "returned"
    /\ text' = full_text'
    /\ analyzer_results' \in DocxDetections(text')
    /\ report' = mask_text_with_report(text', policy, nlp_available,
                                       analyzer_results', runtime,
                                       StableIdState_create)
    /\ label_state' = report'.state
    /\ prev_counters' = label_state.counters
    /\ pc' = "done"
    /\ docx_hits' = [i \in 1..Len(report'.hits) |-> DocxHit(report'.hits[i])]
    /\ docx_pos' = 0
    /\ docx_maps' = <<>>
    /\ docx_pc' = "loop"
    /\ UNCHANGED <<doc, policy, nlp_available, runtime>>
    /\ OnlyDocxChanges

InDocxLoop == docx_pc = "loop" /\ docx_pos < Len(docx_hits)

ThisDocxHit == docx_hits[docx_pos + 1]

ThisDocxMaps == map_hit_to_segments(ThisDocxHit, segments)

\* Line 82.
IsSplit(maps) == Len(maps) > 1 \/ \E i \in 1..Len(maps) : maps[i].overlap

NextDocxHit(hit, emitted) ==
    /\ docx_hits' = [docx_hits EXCEPT ![docx_pos + 1] = hit]
    /\ docx_maps' = docx_maps \o emitted
    /\ docx_pos' = docx_pos + 1
    /\ UNCHANGED <<maskVars, segVars, docx_pc>>
    /\ OnlyDocxChanges

\* Lines 71-72.
SkipKeptHit ==
    /\ InDocxLoop
    /\ StartsWithKeep(ThisDocxHit.reason)
    /\ NextDocxHit(ThisDocxHit, <<>>)

\* Lines 74-79.
SegmentNotFound ==
    /\ InDocxLoop
    /\ ~StartsWithKeep(ThisDocxHit.reason)
    /\ ThisDocxMaps = <<>>
    /\ NextDocxHit(Flagged(ThisDocxHit, "warning:segment_not_found"), <<>>)

\* Lines 74-96, the hit lies within one segment.
ApplyWithinSegment ==
    /\ InDocxLoop
    /\ ~StartsWithKeep(ThisDocxHit.reason)
    /\ ThisDocxMaps # <<>>
    /\ ~IsSplit(ThisDocxMaps)
    /\ NextDocxHit(ThisDocxHit, Triples(ThisDocxHit, ThisDocxMaps))

\* Lines 74-96, the hit is split.
ApplySplit ==
    /\ InDocxLoop
    /\ ~StartsWithKeep(ThisDocxHit.reason)
    /\ ThisDocxMaps # <<>>
    /\ IsSplit(ThisDocxMaps)
    /\ NextDocxHit(Flagged(ThisDocxHit, "warning:segment_overlap_applied"),
                   Triples(ThisDocxHit, ThisDocxMaps))

\* Lines 98-100.
RewriteDocx ==
    /\ docx_pc = "loop"
    /\ docx_pos = Len(docx_hits)
    /\ docx_pc' = "written"
    /\ UNCHANGED <<maskVars, segVars, docx_hits, docx_pos, docx_maps>>
    /\ OnlyDocxChanges

NextDocx ==
    \/ ExtractAndMask
    \/ SkipKeptHit
    \/ SegmentNotFound
    \/ ApplyWithinSegment
    \/ ApplySplit
    \/ RewriteDocx

SpecDocx == InitDocx /\ [][NextDocx]_vars

-----------------------------------------------------------------------------
(* Hits and segments.                                                      *)

HitOffsets(h) == h.start .. (h.end - 1)

SegOffsets(seg) == seg.global_start .. (seg.global_end - 1)

Shared(h, seg) == HitOffsets(h) \cap SegOffsets(seg)

SegIndex(id) == CHOOSE k \in 1..Len(segments) : segments[k].seg_id = id

\* One entry per segment that shares an offset with the hit and none for
\* any other.
OneEntryPerTouchedSegment(h, es) ==
    /\ \A i \in 1..Len(es) :
          \E k \in 1..Len(segments) : es[i].seg_id = segments[k].seg_id
    /\ \A k \in 1..Len(segments) :
          Cardinality({ i \in 1..Len(es) : es[i].seg_id = segments[k].seg_id })
              = IF Shared(h, segments[k]) # {} THEN 1 ELSE 0

InSegmentOrder(es) ==
    \A i, j \in 1..Len(es) :
        i < j => SegIndex(es[i].seg_id) < SegIndex(es[j].seg_id)

\* The local range of an entry is the shared part, counted from the start of
\* the segment.
LocalBoundsOfIntersection(h, es) ==
    \A i \in 1..Len(es) :
        LET seg == segments[SegIndex(es[i].seg_id)]
        IN  { seg.global_start + x :
                 x \in es[i].local_start .. (es[i].local_end - 1) }
                = Shared(h, seg)

ContainedInOneSegment(h) ==
    \E k \in 1..Len(segments) : HitOffsets(h) \subseteq SegOffsets(segments[k])

\* The hits the loop has gone through and did not pass over as kept.
AppliedHits ==
    { i \in 1..docx_pos : ~StartsWithKeep(docx_hits[i].reason) }

Bare3(m) ==
    [seg_id |-> m.seg_id, local_start |-> m.local_start,
     local_end |-> m.local_end]

EntriesOwed ==
    Concat([i \in 1..docx_pos |->
              IF i \in AppliedHits
              THEN LET es == map_hit_to_segments(docx_hits[i], segments)
                   IN  [j \in 1..Len(es) |-> Bare3(es[j])]
              ELSE <<>>])

-----------------------------------------------------------------------------
(* Two detected candidates that overlap.                                   *)

\* "050-1234-5678" and the eight characters that follow it.
PhoneText ==
    <<"0", "5", "0", "-", "1", "2", "3", "4", "-", "5", "6", "7", "8",
      "ni", "go", "ren", "raku", "ku", "da", "sa", "i">>

\* The highest configured priority.
MaxPriority == 2

PrioritySpans == { <<0, 13>>, <<0, 3>>, <<2, 5>> }

PriorityScores == {70, 85}

PriorityPolicies ==
    { [entity_priority |-> [e \in {"PHONE", "COMPANY"} |->
                               IF e = "PHONE" THEN p ELSE c],
       mode |-> "LABEL", black_min_len |-> 3, allowlist |-> <<>>,
       label_format |-> <<>>, review_threshold |-> 80] :
        p \in 0..MaxPriority, c \in 0..MaxPriority }

\* A PHONE and a COMPANY result on spans that overlap, in either order.
PriorityDetections ==
    UNION { { << [start |-> a[1], end |-> a[2], entity_type |-> "PHONE",
                  score |-> sa, rec |-> 1],
                 [start |-> b[1], end |-> b[2], entity_type |-> "COMPANY",
                  score |-> sb, rec |-> 2] >>,
              << [start |-> b[1], end |-> b[2], entity_type |-> "COMPANY",
                  score |-> sb, rec |-> 1],
                 [start |-> a[1], end |-> a[2], entity_type |-> "PHONE",
                  score |-> sa, rec |-> 2] >> } :
            <<a, b, sa, sb>> \in { q \in PrioritySpans \X PrioritySpans
                                          \X PriorityScores \X PriorityScores :
                                     overlaps(q[1][1], q[1][2], q[2][1], q[2][2]) } }

InitPriority ==
    /\ text = PhoneText
    /\ analyzer_results \in PriorityDetections
    /\ policy \in PriorityPolicies
    /\ nlp_available \in BOOLEAN
    /\ runtime = NoRuntime
    /\ pc = "idle"
    /\ report = NoReport
    /\ label_state = EmptyLabelState
    /\ prev_counters = <<>>
    /\ OnlyMaskRuns

SetOverridesPriority ==
    /\ pc = "idle"
    /\ set_runtime_overrides(<<>>, <<>>, <<>>)

NextPriority == SetOverridesPriority \/ MaskTextWithReport

SpecPriority == InitPriority /\ [][NextPriority]_vars

(***************************************************************************)
(* Claims about two overlapping candidates.                                *)
(***************************************************************************)
Detected(entity) ==
    CHOOSE r \in Range(analyzer_results) : r.entity_type = entity

Prio(entity) == policy.entity_priority[entity]

Length(r) == r.end - r.start

\* The hit list is the one hit of this result.
AloneInOutput(r) ==
    /\ Len(report.hits) = 1
    /\ report.hits[1].entity_type = r.entity_type
    /\ report.hits[1].start = r.start
    /\ report.hits[1].end = r.end
    /\ report.hits[1].score = r.score

Beats(r, other) ==
    \/ Prio(r.entity_type) > Prio(other.entity_type)
    \/ /\ Prio(r.entity_type) = Prio(other.entity_type)
       /\ Length(r) > Length(other)

PhoneExample ==
    /\ Detected("PHONE").start = 0 /\ Detected("PHONE").end = 13
    /\ Detected("PHONE").score = 85
    /\ Detected("COMPANY").start = 0 /\ Detected("COMPANY").end = 3
    /\ Detected("COMPANY").score = 70

\* C20: of two detected candidates that overlap, the run keeps the one whose
\* entity type has the higher configured priority, whatever their lengths
\* and scores, and the longer one when the priorities are equal; for PHONE
\* [0,13) score 0.85 and COMPANY [0,3) score 0.70 on "050-1234-5678..." the
\* hit list is PHONE alone when priority(PHONE) >= priority(COMPANY) and
\* COMPANY alone otherwise.
C20_HigherPriorityThenLongerWins ==
    pc = "done" =>
        /\ Beats(Detected("PHONE"), Detected("COMPANY"))
              => AloneInOutput(Detected("PHONE"))
        /\ Beats(Detected("COMPANY"), Detected("PHONE"))
              => AloneInOutput(Detected("COMPANY"))
        /\ PhoneExample =>
              IF Prio("PHONE") >= Prio("COMPANY")
              THEN AloneInOutput(Detected("PHONE"))
              ELSE AloneInOutput(Detected("COMPANY"))

\* The short, low-score COMPANY result displaced the PHONE result of the
\* example on priority alone.
C20_Witness ==
    /\ pc = "done"
    /\ PhoneExample
    /\ Prio("PHONE") < Prio("COMPANY")
    /\ AloneInOutput(Detected("COMPANY"))

\* The PHONE result of the example is kept on equal priorities.
C20_EqualPriorityWitness ==
    /\ pc = "done"
    /\ PhoneExample
    /\ Prio("PHONE") = Prio("COMPANY")
    /\ AloneInOutput(Detected("PHONE"))

-----------------------------------------------------------------------------
(* process_pdf_file: the document handle.                                  *)

\* A call of process_pdf_file that raises leaves through none of the lines
\* that follow it; no line of the function is under try/finally or with.
Raises ==
    /\ pdf_pc' = "raised"
    /\ UNCHANGED <<maskVars, chars, q_start, q_end, page_rects, pdf_conf,
                   pdf_hits, hit_pos, annots, stats, doc_open>>
    /\ OnlyPdfChanges

\* Line 245: mask_text_with_report raises (the detector call of the
\* unchunked path is not guarded).
AnalysisFails ==
    /\ pdf_pc = "opened"
    /\ Raises

\* Lines 277-334: a page lookup, search_for or add_redact_annot raises.
RedactionFails ==
    /\ InLoop
    /\ ~PassedOver(ThisHit)
    /\ Raises

\* Lines 339-346: apply_redactions, makedirs or doc.save raises.
SaveFails ==
    /\ pdf_pc = "loop"
    /\ hit_pos = Len(pdf_hits)
    /\ Raises

NextPdfCycle ==
    \/ NextPdf
    \/ AnalysisFails
    \/ RedactionFails
    \/ SaveFails

SpecPdfCycle == InitPdf /\ [][NextPdfCycle]_vars

(***************************************************************************)
(* Claims about the document handle.                                       *)
(***************************************************************************)
CycleEnded == pdf_pc \in {"saved", "raised"}

\* C21: every execution of process_pdf_file that opened the document has
\* closed it when the cycle ends, whether the cycle completes or analysis,
\* redaction or saving fails.  (A call that has ended takes no further
\* step, so a handle that is open then is never released by it.)
C21_HandleClosedWhenCycleEnds == CycleEnded => ~doc_open

\* What the function does guarantee: the handle is closed on completion, and
\* it is left open exactly by the calls that raise.
C21_HandleClosedOnCompletionOnly ==
    /\ pdf_pc = "saved" => ~doc_open
    /\ pdf_pc = "raised" => doc_open

\* A call that raised after the document was opened.
C21_RaisedWithOpenHandle == pdf_pc = "raised" /\ doc_open

-----------------------------------------------------------------------------
(* Page layouts: where the characters of the map sit on the page.  The     *)
(* order of `chars` is the order of the page's blocks, lines and spans as  *)
(* get_text("rawdict") lists them (lines 73-99, no sort), which is the     *)
(* order of the file and need not be the reading order.                    *)

\* The rightmost column of a line.
MaxColumn == 2

LayoutLines == {100, 200}

\* A glyph in column col of the line at y0.
Placed(col, y0, char) ==
    CharInfo(0, 10 * col, y0, 10 * col + 8, y0 + 10, char)

LayoutChars(i) ==
    { Placed(col, y0, "A") : col \in 0..MaxColumn, y0 \in LayoutLines }
        \cup { dummy(0) }

\* No two glyphs of a page sit in the same place.
Disjoint(cs) ==
    \A i, j \in 1..Len(cs) :
        (i # j /\ ~IsSkipped(cs[i]) /\ ~IsSkipped(cs[j])) => cs[i] # cs[j]

InitLayout ==
    /\ chars \in { cs \in CharMaps(LayoutChars, MaxChars) : Disjoint(cs) }
    /\ q_start = 0 /\ q_end = 0 /\ page_rects = <<>>
    /\ pdf_conf = <<>> /\ pdf_hits = <<>> /\ hit_pos = 0 /\ annots = <<>>
    /\ stats = <<>> /\ pdf_pc = "closed" /\ doc_open = FALSE
    /\ OnlyQuadsRun

\* Line 276: the spans process_pdf_file looks up in the map.
LookUpHit ==
    /\ \E start \in 0..(Len(chars) - 1), end \in 1..Len(chars) :
          /\ start < end
          /\ q_start' = start
          /\ q_end' = end
          /\ page_rects' = get_quads_for_span(chars, start, end)
    /\ pdf_pc' = "quads"
    /\ UNCHANGED <<chars, pdf_conf, pdf_hits, hit_pos, annots, stats, doc_open>>
    /\ OnlyQuadsChange

NextLayout == LookUpHit

SpecLayout == InitLayout /\ [][NextLayout]_vars

(***************************************************************************)
(* Claims about what the rectangles of a hit cover.                        *)
(***************************************************************************)
\* The character lies inside the rectangle (before the padding).
Inside(ci, r) ==
    /\ ci.page_idx = r.page
    /\ r.x0 <= ci.x0 /\ ci.x1 <= r.x1
    /\ r.y0 <= ci.y0 /\ ci.y1 <= r.y1

AllOffsets == 0..(Len(chars) - 1)

Covered(r) == { i \in AllOffsets : ~IsSkipped(CharAt(i)) /\ Inside(CharAt(i), r) }

\* C22: every rectangle returned for a hit covers only characters whose
\* offset lies inside the hit's [start,end): no character outside the hit
\* lies inside a rectangle emitted for it.
C22_RectanglesCoverOnlyTheHit ==
    QuadsReturned =>
        \A k \in 1..Len(page_rects) : Covered(page_rects[k]) \subseteq SpanOffsets

\* What the function guarantees: each rectangle is the bounding box of the
\* characters of the hit that were folded into it.
BoundingBox(r) ==
    /\ r.members # {}
    /\ \A i \in r.members : Inside(CharAt(i), r)
    /\ \E i \in r.members : CharAt(i).x0 = r.x0
    /\ \E i \in r.members : CharAt(i).x1 = r.x1
    /\ \E i \in r.members : CharAt(i).y0 = r.y0
    /\ \E i \in r.members : CharAt(i).y1 = r.y1

C22_RectanglesAreBoxesOfHitCharacters ==
    QuadsReturned =>
        /\ MembersAreTheRealChars
        /\ \A k \in 1..Len(page_rects) : BoundingBox(page_rects[k])

\* The characters of every line follow each other from left to right.
ReadingOrder ==
    \A i, j \in AllOffsets :
        (i < j /\ ~IsSkipped(CharAt(i)) /\ ~IsSkipped(CharAt(j))
               /\ CharAt(i).y0 = CharAt(j).y0)
            => CharAt(i).x0 < CharAt(j).x0

\* On a page listed in reading order the rectangles cover the hit alone.
C22_CoverOnlyTheHitInReadingOrder ==
    (QuadsReturned /\ ReadingOrder) =>
        \A k \in 1..Len(page_rects) : Covered(page_rects[k]) \subseteq SpanOffsets

\* A rectangle of a hit with a character of the page that is not of the hit
\* inside it.
C22_StrangerInsideRectangle ==
    /\ QuadsReturned
    /\ \E k \in 1..Len(page_rects) :
          \E i \in Covered(page_rects[k]) : i \notin SpanOffsets

-----------------------------------------------------------------------------
(* The splicer and _apply_backward.                                        *)

\* The text of a paragraph: its run texts in document order.
ParagraphText(p) == Concat([i \in 1..Len(p) |-> p[i].text])

InsideText(rs, t) ==
    \A i \in 1..Len(rs) : 0 <= rs[i].start /\ rs[i].start < rs[i].end
                             /\ rs[i].end <= Len(t)

C24_DescendingWitness ==
    /\ Spliced /\ NonOverlapping(repls)
    /\ InsideText(repls, ParagraphText(para0))
    /\ Len(repls) = 2
    /\ repls[1].start > repls[2].start
    /\ Len(para) > Len(para0)

-----------------------------------------------------------------------------
(* pipelines/docx_rewrite.py: paragraphs and table cells.                  *)
(*                                                                         *)
(* A cell is the sequence of its paragraphs, each the sequence of its runs *)
(* as in the run splicer.                                                  *)

\* _apply_replacements_to_runs as one call on the paragraph p, handed the
\* list rl of its runs.
apply_replacements_to_runs(p, rl, rs) ==
    IF rl = <<>> \/ rs = <<>> THEN p
    ELSE
      LET todo == by_start_reversed(rs)
          f[i \in 0..Len(todo)] ==
              IF i = 0 THEN p
              ELSE LET q        == f[i - 1]
                       run_info == build_map(q, rl)
                       affected == Affected(run_info, todo[i].start, todo[i].end)
                   IN  IF affected = {} THEN q
                       ELSE IF Cardinality(affected) = 1
                       THEN splice_single_run(q, run_info, affected, todo[i])
                       ELSE splice_multi_run(q, run_info, affected, todo[i])
      IN  f[Len(todo)]

\* _apply_replacements_to_paragraph: the runs of the paragraph are spliced;
\* a paragraph without runs gets one run with the text _apply_backward
\* computes from its empty text.
apply_replacements_to_paragraph(p, rs) ==
    IF p # <<>>
    THEN apply_replacements_to_runs(p, [i \in 1..Len(p) |-> p[i].id], rs)
    ELSE << [id |-> 1, text |-> apply_backward(<<>>, rs), fmt |-> "plain"] >>

\* p.text
p_text(p) == Concat([i \in 1..Len(p) |-> p[i].text])

\* cell.text: the paragraph texts joined by "\n"
RECURSIVE cell_text(_)
cell_text(c) ==
    IF c = <<>> THEN <<>>
    ELSE IF Len(c) = 1 THEN p_text(c[1])
    ELSE p_text(c[1]) \o <<SEP>> \o cell_text(Tail(c))

\* Lines 221-226: the paragraph offset map.
para_map(c) ==
    LET f[i \in 0..Len(c)] ==
            IF i = 0 THEN [info |-> <<>>, pos |-> 0]
            ELSE LET t == p_text(c[i])
                 IN  [info |-> Append(f[i - 1].info,
                                      [para |-> i, start |-> f[i - 1].pos,
                                       end |-> f[i - 1].pos + Len(t)]),
                      pos  |-> f[i - 1].pos + Len(t) + 1]
    IN  f[Len(c)].info

\* Lines 232-236: the first paragraph of the map that holds the range, or 0.
Target(pm, rs, re) ==
    LET holds == { i \in 1..Len(pm) : rs >= pm[i].start /\ re <= pm[i].end }
    IN  IF holds = {} THEN 0 ELSE CHOOSE i \in holds : \A j \in holds : i <= j

\* Lines 238-244.
replace_in_target(c, pm, target, repl) ==
    [c EXCEPT ![pm[target].para] =
        apply_replacements_to_paragraph(
            c[pm[target].para],
            << [start       |-> repl.start - pm[target].start,
                end         |-> repl.end - pm[target].start,
                replacement |-> repl.replacement] >>)]

\* Lines 246-257: the text of the whole cell, with the replacement made,
\* becomes the text of the first paragraph and the runs of the other
\* paragraphs are emptied.
flatten_into_first(c, repl) ==
    LET whole_text == cell_text(c)
        new_text  == Slice(whole_text, 0, repl.start) \o repl.replacement
                     \o Slice(whole_text, repl.end, Len(whole_text))
    IN  [i \in 1..Len(c) |->
            IF i = 1
            THEN apply_replacements_to_paragraph(
                     c[1], << [start |-> 0, end |-> Len(p_text(c[1])),
                               replacement |-> new_text] >>)
            ELSE [k \in 1..Len(c[i]) |-> [c[i][k] EXCEPT !.text = <<>>]]]

\* Lines 212-226.
CallCellSplicer ==
    /\ cell_pc = "call"
    /\ IF Len(cell) = 1
       THEN /\ cell' = << apply_replacements_to_paragraph(cell[1], cell_repls) >>
            /\ cell_pending' = <<>>
            /\ cell_pc' = "returned"
       ELSE /\ cell' = cell
            /\ cell_pending' = by_start_reversed(cell_repls)
            /\ cell_pc' = IF cell_repls = <<>> THEN "returned" ELSE "loop"
    /\ UNCHANGED <<cell0, cell_repls>>
    /\ UNCHANGED <<maskVars, segVars, spliceVars, pdfVars, chunkVars, guiVars,
                   docxVars, iterVars, payload>>

TargetNow ==
    IF cell_pc = "loop"
    THEN Target(para_map(cell0), cell_pending[1].start, cell_pending[1].end)
    ELSE 0

NextCellReplacement ==
    /\ cell_pending' = Tail(cell_pending)
    /\ cell_pc' = IF Tail(cell_pending) = <<>> THEN "returned" ELSE "loop"
    /\ UNCHANGED <<cell0, cell_repls>>
    /\ UNCHANGED <<maskVars, segVars, spliceVars, pdfVars, chunkVars, guiVars,
                   docxVars, iterVars, payload>>

\* Lines 238-244.
ReplaceInParagraph ==
    /\ cell_pc = "loop"
    /\ TargetNow # 0
    /\ cell' = replace_in_target(cell, para_map(cell0), TargetNow, cell_pending[1])
    /\ NextCellReplacement

\* Lines 245-257.
FlattenCell ==
    /\ cell_pc = "loop"
    /\ TargetNow = 0
    /\ cell' = flatten_into_first(cell, cell_pending[1])
    /\ NextCellReplacement

\* The most paragraphs of a cell and the most replacements of a call.
MaxCellParagraphs == 3

MaxCellRepls == 2

\* The paragraph texts of the cells, in order.
CellParagraphTexts ==
    << <<"a">>, <<"b", "c">>, <<"d">>, <<"e", "f">>, <<"g">>, <<"h", "i">> >>

\* A paragraph with its text in one run, or in a run followed by an empty
\* run.
OneRun(t) == << [id |-> 1, text |-> t, fmt |-> "bold"] >>

TwoRuns(t) ==
    << [id |-> 1, text |-> t, fmt |-> "bold"],
       [id |-> 2, text |-> <<>>, fmt |-> "italic"] >>

Cells ==
    UNION { { [i \in 1..n |-> IF i \in two THEN TwoRuns(CellParagraphTexts[i])
                              ELSE OneRun(CellParagraphTexts[i])] :
                two \in SUBSET (1..n) } : n \in 1..MaxCellParagraphs }

CellReplacementLists(c) ==
    { [i \in 1..Len(sl) |->
          [start |-> sl[i][1], end |-> sl[i][2], replacement |-> w]] :
        sl \in { SortedByKey(SetToSeq(D), LAMBDA x : x) :
                   D \in Subsets(AllSpans(Len(cell_text(c))), MaxCellRepls) },
        w \in { <<"X">>, <<"X", "X", "X">> } }

InitCell ==
    /\ cell0 \in Cells
    /\ cell = cell0
    /\ cell_repls \in { rl \in CellReplacementLists(cell0) : NonOverlapping(rl) }
    /\ cell_pending = <<>>
    /\ cell_pc = "call"
    /\ MaskIdle /\ SegmentsIdle /\ SpliceIdle /\ PdfIdle /\ ChunksIdle
    /\ GuiIdle /\ DocxIdle /\ IterIdle /\ PayloadIdle

NextCell == CallCellSplicer \/ ReplaceInParagraph \/ FlattenCell

SpecCell == InitCell /\ [][NextCell]_vars

(***************************************************************************)
(* Claims about the replacements in a cell.                                *)
(***************************************************************************)
CellReturned == cell_pc = "returned"

\* The letters of the cell as passed that lie in a replaced range.
ReplacedLetters ==
    LET t == cell_text(cell0)
    IN  { t[n + 1] : n \in { m \in 0..(Len(t) - 1) :
                              /\ t[m + 1] # SEP
                              /\ \E i \in 1..Len(cell_repls) :
                                    cell_repls[i].start <= m
                                    /\ m < cell_repls[i].end } }

CountOf(ch, t) == Cardinality({ n \in 1..Len(t) : t[n] = ch })

ReplacementLetters ==
    LET f[i \in 0..Len(cell_repls)] ==
            IF i = 0 THEN 0 ELSE f[i - 1] + Len(cell_repls[i].replacement)
    IN  f[Len(cell_repls)]

AllTookEffect ==
    /\ ReplacedLetters \cap Range(cell_text(cell)) = {}
    /\ CountOf("X", cell_text(cell)) = ReplacementLetters

CrossesParagraphs(r) == Target(para_map(cell0), r.start, r.end) = 0

\* C23: in a cell of several paragraphs every replacement of a pairwise
\* non-overlapping list takes effect: after the call the characters of each
\* replaced range are gone from the cell and its replacement text is there,
\* also when a replacement spans a paragraph boundary and others of the
\* list target earlier paragraphs.
C23_EveryReplacementTakesEffect ==
    (CellReturned /\ Len(cell0) > 1) => AllTookEffect

\* What holds: the same for lists none of whose replacements spans a
\* paragraph boundary.
C23_TakeEffectWithinParagraphs ==
    (CellReturned /\ Len(cell0) > 1
        /\ \A i \in 1..Len(cell_repls) : ~CrossesParagraphs(cell_repls[i]))
        => AllTookEffect

\* A call with a replacement across a paragraph boundary after which a
\* letter of a range in an earlier paragraph is still in the cell.
C23_ReplacementLost ==
    /\ CellReturned
    /\ \E i, j \in 1..Len(cell_repls) :
          /\ CrossesParagraphs(cell_repls[j])
          /\ ~CrossesParagraphs(cell_repls[i])
          /\ cell_repls[i].end <= cell_repls[j].start
    /\ ReplacedLetters \cap Range(cell_text(cell)) # {}

-----------------------------------------------------------------------------
(* pipelines/docx_rewrite.py: _iter_segments_same_doc                      *)
(*                                                                         *)
(* The writer opens the document again and goes through its containers in  *)
(* the order of Visits; what it yields is (seg_id, kind, obj, text), obj    *)
(* being the number of the container as in extract_docx_segments.          *)

\* mk(kind): the seg_id of the current counter.
mk(kind, n) == <<kind, n>>

Yielded(kind, n, obj, t) ==
    [seg_id |-> mk(kind, n), kind |-> kind, obj |-> obj, text |-> t]

IterAt == Visits(doc)[iter_pos + 1]

Iterating == iter_pc = "iterate" /\ iter_pos < Len(Visits(doc))

OnlyIterChanges ==
    UNCHANGED <<maskVars, segVars, spliceVars, pdfVars, chunkVars, guiVars,
                docxVars, cellVars, payload>>

\* Lines 277-297: a container that is there is yielded under the counter,
\* which goes up by one.
YieldSegment ==
    /\ Iterating
    /\ ~NoSegment(IterAt.text)
    /\ iter_out' = Append(iter_out, Yielded(IterAt.kind, iter_idx, iter_pos + 1,
                                            IterAt.text))
    /\ iter_idx' = iter_idx + 1
    /\ iter_pos' = iter_pos + 1
    /\ UNCHANGED iter_pc
    /\ OnlyIterChanges

\* Lines 279, 285: a header or footer that is not there.
PassOverPart ==
    /\ Iterating
    /\ IterAt.text = NoPart
    /\ iter_pos' = iter_pos + 1
    /\ UNCHANGED <<iter_idx, iter_out, iter_pc>>
    /\ OnlyIterChanges

\* Lines 279-280, 285-286: sec.header, sec.footer or their paragraphs raise;
\* the exception is swallowed (lines 282-283, 288-289).
PartRaises ==
    /\ Iterating
    /\ IterAt.text = RaisesOnAccess
    /\ iter_pos' = iter_pos + 1
    /\ UNCHANGED <<iter_idx, iter_out, iter_pc>>
    /\ OnlyIterChanges

\* Lines 281, 287: in  yield mk("H"), "H", p, p.text or ""  the call of mk
\* is evaluated before p.text, so the counter has gone up when p.text raises
\* and nothing is yielded.
TextRaises ==
    /\ Iterating
    /\ IterAt.text = RaisesOnText
    /\ iter_idx' = iter_idx + 1
    /\ iter_pos' = iter_pos + 1
    /\ UNCHANGED <<iter_out, iter_pc>>
    /\ OnlyIterChanges

Exhausted ==
    /\ iter_pc = "iterate"
    /\ iter_pos = Len(Visits(doc))
    /\ iter_pc' = "exhausted"
    /\ UNCHANGED <<iter_pos, iter_idx, iter_out>>
    /\ OnlyIterChanges

\* The most sections of a document.
MaxIterSections == 2

IterParts == { NoPart, <<"a">>, RaisesOnAccess, RaisesOnText }

IterDocs ==
    { [sections |-> secs, paragraphs |-> ps, cells |-> cs] :
        secs \in UNION { [1..n -> [header : IterParts, footer : IterParts]] :
                           n \in 1..MaxIterSections },
        ps \in { <<>>, << <<"b">> >>, << <<>>, <<"b">> >> },
        cs \in { <<>>, << <<"c">> >> } }

\* The document has been read by extract_docx_segments and is opened again
\* by rewrite_docx_with_maps.
InitIter ==
    /\ doc \in IterDocs
    /\ LET st == extract_docx_segments(doc)
       IN  /\ segments = st.segments
           /\ buf = st.buf
           /\ cur = st.cur
           /\ idx = st.idx
           /\ full_text = Concat(st.buf)
    /\ seg_pos = Len(Visits(doc))
    /\ seg_pc = "returned"
    /\ iter_pos = 0 /\ iter_idx = 0 /\ iter_out = <<>> /\ iter_pc = "iterate"
    /\ MaskIdle /\ SpliceIdle /\ PdfIdle /\ ChunksIdle /\ GuiIdle /\ DocxIdle
    /\ CellIdle /\ PayloadIdle

NextIter ==
    \/ YieldSegment
    \/ PassOverPart
    \/ PartRaises
    \/ TextRaises
    \/ Exhausted

SpecIter == InitIter /\ [][NextIter]_vars

(***************************************************************************)
(* Claims about the two traversals.                                        *)
(***************************************************************************)
\* What extract_docx_segments produced, as (seg_id, kind, obj, text).
Extracted ==
    [i \in 1..Len(segments) |->
        Yielded(segments[i].kind, segments[i].seg_id[2], segments[i].obj,
                segments[i].text)]

HasPart(d, outcome) ==
    \E i \in 1..Len(d.sections) :
        d.sections[i].header = outcome \/ d.sections[i].footer = outcome

\* C25: for every document, also one where reading a header or footer raises,
\* the writer's traversal yields the sequence of (seg_id, kind, text) that
\* the extractor produced, each seg_id with the container it had there.
C25_WriterYieldsExtractedSegments ==
    iter_pc = "exhausted" => iter_out = Extracted

\* What holds: the same when no header or footer raises at the text of its
\* first paragraph, headers and footers that raise earlier included.
C25_SameSegmentsUnlessTextRaises ==
    (iter_pc = "exhausted" /\ ~HasPart(doc, RaisesOnText))
        => iter_out = Extracted

\* A traversal past a header that raised at its text: a seg_id of the
\* extractor is yielded with another container.
C25_SegIdOnOtherContainer ==
    /\ iter_pc = "exhausted"
    /\ HasPart(doc, RaisesOnText)
    /\ \E i \in 1..Len(segments), j \in 1..Len(iter_out) :
          /\ segments[i].seg_id = iter_out[j].seg_id
          /\ segments[i].obj # iter_out[j].obj

\* A traversal past a header that raised at sec.header, after which both
\* passes agree.
C25_AgreeAfterRaise ==
    /\ iter_pc = "exhausted"
    /\ HasPart(doc, RaisesOnAccess) /\ ~HasPart(doc, RaisesOnText)
    /\ Len(iter_out) >= 2

-----------------------------------------------------------------------------
(* engine/masking_engine.py: the masked text and the hits.                 *)

\* The most detections of a run.
MaxMaskedItems == 2

\* Documents: a designator followed by a name of one or two characters, and
\* two names.
MaskedTexts ==
    { Designator \o <<"A">>, Designator \o <<"A", "B">>, <<"A", "sp", "B">> }

MaskedSpans(n) ==
    { sp \in {0, 2, 3, 4} \X {1, 3, 4, 5} : sp[1] < sp[2] /\ sp[2] <= n }

MaskedDetections(t) ==
    { [start |-> sp[1], end |-> sp[2],
       entity_type |-> Recognizers[k].entity_type,
       score |-> Recognizers[k].score, rec |-> k]
      : sp \in MaskedSpans(Len(t)), k \in 1..Len(Recognizers) }

InitMasked ==
    /\ text \in MaskedTexts
    /\ analyzer_results \in
          { SortedByKey(SetToSeq(D), DetectionOrder) :
              D \in Subsets(MaskedDetections(text), MaxMaskedItems) }
    /\ InitEngine

SetOverridesMasked ==
    /\ pc = "idle"
    /\ set_runtime_overrides(<<>>, <<>>, <<>>)

NextMasked == SetOverridesMasked \/ MaskTextWithReport

SpecMasked == InitMasked /\ [][NextMasked]_vars

(***************************************************************************)
(* Claims about the masked text.                                           *)
(***************************************************************************)
\* Lines 503, 562 and 586: the i-th piece of the text copied between the
\* hits, from the end of the hit before it to the start of the hit after.
GapFrom(i) == IF i = 1 THEN 0 ELSE Hits[i - 1].end

GapTo(i) == IF i <= Len(Hits) THEN Hits[i].start ELSE Len(text)

InGap(n, i) == GapFrom(i) <= n /\ n < GapTo(i)

InHit(n, h) == h.start <= n /\ n < h.end

\* How often the character at offset n of the text is put into the masked
\* text: with the pieces between the hits, and with the hits whose
\* replacement is their original.
Copies(n) ==
    Cardinality({ i \in 1..(Len(Hits) + 1) : InGap(n, i) })
    + Cardinality({ i \in 1..Len(Hits) :
                      StartsWithKeep(Hits[i].reason) /\ InHit(n, Hits[i]) })

\* The masked text is these pieces and the replacements of the hits.
GapsAndReplacements ==
    Concat([i \in 1..(2 * Len(Hits) + 1) |->
               IF i % 2 = 1
               THEN Slice(text, GapFrom((i + 1) \div 2), GapTo((i + 1) \div 2))
               ELSE Hits[i \div 2].replacement])

Offsets == 0..(Len(text) - 1)

OutsideAllHits(n) == \A i \in 1..Len(Hits) : ~InHit(n, Hits[i])

InMaskedHit(n) ==
    \E i \in 1..Len(Hits) :
        ~StartsWithKeep(Hits[i].reason) /\ InHit(n, Hits[i])

OutsideCopiedOnce == \A n \in Offsets : OutsideAllHits(n) => Copies(n) = 1

MaskedNeverCopied == \A n \in Offsets : InMaskedHit(n) => Copies(n) = 0

\* C26: the masked text is the text with the range of each hit replaced by
\* its replacement: every character outside all hit ranges appears exactly
\* once, and no character at an offset inside a masked hit is emitted.
C26_MaskedTextReplacesHitRanges ==
    Done => /\ report.masked = GapsAndReplacements
            /\ OutsideCopiedOnce
            /\ MaskedNeverCopied

\* What holds: the characters outside all hits appear exactly once; those
\* inside a masked hit are not emitted when the hits are in order and
\* disjoint.
C26_OutsideOnceAndDisjointHitsReplaced ==
    Done => /\ report.masked = GapsAndReplacements
            /\ OutsideCopiedOnce
            /\ (\A i \in 1..(Len(Hits) - 1) : Hits[i].end <= Hits[i + 1].start)
                  => MaskedNeverCopied

\* A run whose masked text holds a character of a masked hit.
C26_MaskedCharacterEmitted ==
    /\ Done
    /\ \E n \in Offsets : InMaskedHit(n) /\ Copies(n) > 0
    /\ \E i \in 1..Len(Hits) : Hits[i].end > Len(Designator) + 1

-----------------------------------------------------------------------------
(* The replacement recorded for a hit and the one written to the document. *)

\* The replacements of the triples process_docx_file emitted for the hit.
WrittenFor(h) ==
    LET es == map_hit_to_segments(h, segments)
    IN  { docx_maps[j].replacement :
            j \in { k \in 1..Len(docx_maps) :
                      \E i \in 1..Len(es) : Bare3(docx_maps[k]) = Bare3(es[i]) } }

\* The applied hits that lie within one segment.
WithinOneSegment ==
    { i \in AppliedHits :
        /\ ContainedInOneSegment(docx_hits[i])
        /\ ~IsSplit(map_hit_to_segments(docx_hits[i], segments)) }

\* C27: for every masked hit within one segment the replacement written
\* into the document is the replacement the report records for the hit, in
\* LABEL and in BLACK mode.
C27_WrittenReplacementIsRecorded ==
    docx_pc = "written" =>
        \A i \in WithinOneSegment :
            WrittenFor(docx_hits[i]) = { docx_hits[i].replacement }

\* What holds: the two are equal in LABEL mode; in BLACK mode the document
\* gets one filler per character of the hit, the report
\* max(black_min_len, length) of them.
C27_WrittenBlackoutHasHitLength ==
    docx_pc = "written" =>
        \A i \in WithinOneSegment :
            LET h == docx_hits[i]
            IN  IF policy.mode = "BLACK"
                THEN /\ WrittenFor(h) = { Repeat(BLACK_CHAR, h.end - h.start) }
                     /\ h.replacement =
                           Repeat(BLACK_CHAR,
                                  Max(policy.black_min_len, h.end - h.start))
                ELSE WrittenFor(h) = { h.replacement }

\* A document written in BLACK mode with a hit shorter than the minimum.
C27_ShortBlackoutWritten ==
    /\ docx_pc = "written"
    /\ policy.mode = "BLACK"
    /\ \E i \in WithinOneSegment :
          /\ docx_hits[i].end - docx_hits[i].start < policy.black_min_len
          /\ WrittenFor(docx_hits[i]) # { docx_hits[i].replacement }

\* A document written in LABEL mode with a hit within one segment.
C27_LabelWritten ==
    /\ docx_pc = "written"
    /\ policy.mode = "LABEL"
    /\ \E i \in WithinOneSegment :
          WrittenFor(docx_hits[i]) = { docx_hits[i].replacement }

-----------------------------------------------------------------------------
(* report/ui_payload.py and app_controller.py: the review payload.         *)

\* Lines 24-40: one span per hit of the report, in order; writer_hits are
\* the same hits with the reason the document writer left on them.
payload_spans(hits, writer_hits) ==
    [i \in 1..Len(hits) |->
        [span_id |-> i, entity_type |-> hits[i].entity_type,
         start |-> hits[i].start, end |-> hits[i].end,
         reason |-> writer_hits[i].reason]]

\* Lines 55-64: the first span with the start, end and entity type of the
\* review entry, or 0.
match(spans, h) ==
    LET same == { i \in 1..Len(spans) :
                    /\ spans[i].start = h.start
                    /\ spans[i].end = h.end
                    /\ spans[i].entity_type = h.entity_type }
    IN  IF same = {} THEN 0 ELSE CHOOSE i \in same : \A j \in same : i <= j

\* Lines 42-83: report["review"] is the list the engine built, which is never
\* None, so the hits are not looked at for their review_flag (lines 43-52).
review_items(spans, raw_review) ==
    LET f[j \in 0..Len(raw_review)] ==
            IF j = 0 THEN <<>>
            ELSE LET m == match(spans, raw_review[j])
                 IN  IF m = 0 THEN f[j - 1]
                     ELSE Append(f[j - 1],
                                 [id |-> j, span_id |-> spans[m].span_id,
                                  entity_type |-> spans[m].entity_type,
                                  reason |-> spans[m].reason,
                                  offset |-> <<spans[m].start, spans[m].end>>])
    IN  f[Len(raw_review)]

build_review_payload(rep, writer_hits) ==
    LET spans == payload_spans(rep.hits, writer_hits)
    IN  [built        |-> TRUE,
         spans        |-> spans,
         review_items |-> review_items(spans, rep.review),
         summary      |-> rep.summary]

\* app_controller.py lines 76-120: process_file of a PDF, after
\* process_pdf_file has returned.
BuildPdfPayload ==
    /\ pdf_pc = "saved"
    /\ ~payload.built
    /\ payload' = build_review_payload(report, pdf_hits)
    /\ UNCHANGED <<maskVars, segVars, spliceVars, pdfVars, chunkVars, guiVars,
                   docxVars, cellVars, iterVars>>

\* The same for a DOCX, after process_docx_file has returned.
BuildDocxPayload ==
    /\ docx_pc = "written"
    /\ ~payload.built
    /\ payload' = build_review_payload(report, docx_hits)
    /\ UNCHANGED <<maskVars, segVars, spliceVars, pdfVars, chunkVars, guiVars,
                   docxVars, cellVars, iterVars>>

\* What the detector reports for a PDF: nothing, or a PERSON from the start
\* of the text.
PdfFileDetections(t) ==
    { <<>> } \cup
    { << [start |-> 0, end |-> e, entity_type |-> "PERSON", score |-> 85,
          rec |-> 1] >> : e \in 1..Len(t) }

InitPdfFile ==
    /\ chars \in CharMaps(PdfChars, MaxChars)
    /\ text = [i \in 1..Len(chars) |-> chars[i].char]
    /\ policy = PdfPolicy
    /\ nlp_available = TRUE
    /\ analyzer_results \in PdfFileDetections(text)
    /\ runtime \in { RuntimeOverrides(<<>>, fm, <<>>) : fm \in PdfForced(text) }
    /\ pc = "configured"
    /\ report = NoReport
    /\ label_state = EmptyLabelState
    /\ prev_counters = <<>>
    /\ pdf_conf \in PdfConfs
    /\ q_start = 0 /\ q_end = 0 /\ page_rects = <<>>
    /\ pdf_hits = <<>> /\ hit_pos = 0 /\ annots = <<>> /\ stats = <<>>
    /\ pdf_pc = "opened"
    /\ doc_open = TRUE
    /\ OnlyPdfRuns

NextPdfFile == NextPdf \/ BuildPdfPayload

SpecPdfFile == InitPdfFile /\ [][NextPdfFile]_vars

NextDocxFile == NextDocx \/ BuildDocxPayload

SpecDocxFile == InitDocx /\ [][NextDocxFile]_vars

(***************************************************************************)
(* Claims about the review payload.                                       *)
(***************************************************************************)
\* The hits of the report the document writer flagged.
WriterFlagged(writer_hits) ==
    { i \in 1..Len(writer_hits) : writer_hits[i].review_flag }

HasReviewItem(i) ==
    \E j \in 1..Len(payload.review_items) :
        payload.review_items[j].span_id = payload.spans[i].span_id

ReachReview(writer_hits) ==
    /\ \A i \in WriterFlagged(writer_hits) : HasReviewItem(i)
    /\ payload.summary.review_hits >= Cardinality(WriterFlagged(writer_hits))

\* C28: every hit the PDF writer flags (search failed, too many rectangles)
\* has a review_items entry in the payload process_file builds and is
\* counted by summary.review_hits.
C28_FlaggedHitsReachReview ==
    payload.built => ReachReview(pdf_hits)

\* What holds: the flagged hits that the engine itself had put on its review
\* list (forced masks, scores below the threshold) have a review item.
C28_EngineReviewedHitsReachReview ==
    payload.built =>
        \A i \in WriterFlagged(pdf_hits) :
            match(payload.spans, report.hits[i]) = i
            /\ (\E j \in 1..Len(report.review) :
                   /\ report.review[j].start = report.hits[i].start
                   /\ report.review[j].end = report.hits[i].end
                   /\ report.review[j].entity_type = report.hits[i].entity_type)
            => HasReviewItem(i)

\* The same for the hits the DOCX writer flags (segment not found, segment
\* overlap applied).
C28_DocxFlaggedHitsReachReview ==
    payload.built => ReachReview(docx_hits)

\* A PDF whose detected name was not found by the search: the hit is
\* flagged, left unredacted, and absent from the review items.
C28_FlaggedHitNotInReview ==
    /\ payload.built
    /\ \E i \in WriterFlagged(pdf_hits) :
          /\ pdf_hits[i].reason = "warning:pdf_search_failed"
          /\ report.hits[i].source # "forced"
          /\ ~HasReviewItem(i)

\* A PDF whose forced mask was flagged by the writer and is in the review
\* items.
C28_FlaggedForcedHitInReview ==
    /\ payload.built
    /\ \E i \in WriterFlagged(pdf_hits) :
          report.hits[i].source = "forced" /\ HasReviewItem(i)

-----------------------------------------------------------------------------
(* gui_app.py: the detection list over successive runs of one document.    *)
(*                                                                         *)
(* ui is here the record of self.detections and use_blackout, with, for    *)
(* the record, the ranges the user has switched off and not on again, each *)
(* with the number of runs made since.  One worker runs at a time.         *)

\* The most results the detector reports for the document.
MaxKeepDetections == 2

\* The runs counted for a keep decision.
MaxKeepRuns == 2

KeepText == <<"A", "sp", "B", "FA">>

KeepResults ==
    { SortedByKey(SetToSeq(D), DetectionOrder) :
        D \in Subsets({ [start |-> sp[1], end |-> sp[2], entity_type |-> "PERSON",
                         score |-> 85, rec |-> 1] : sp \in {<<0, 1>>, <<2, 3>>} },
                      MaxKeepDetections) } \ { <<>> }

\* Lines 518-543: one enabled detection per span of the payload, by start.
ByStartThenId(d) == <<d.start, d.id>>

build_detections_from_payload(hits) ==
    LET dets == [i \in 1..Len(hits) |->
                    [id |-> i, start |-> hits[i].start, end |-> hits[i].end,
                     entity_type |-> hits[i].entity_type,
                     source |-> hits[i].source, enabled |-> TRUE]]
        sorted == SortedByKey(dets, ByStartThenId)
    IN  [i \in 1..Len(sorted) |-> [sorted[i] EXCEPT !.id = i]]

\* Lines 903-924, from the detection list (no detection of the model has a
\* mask_override).
SwitchedOff(d) == ~d.enabled

ForcedAndOn(d) == d.enabled /\ d.source = "forced"

overrides_of(dets) ==
    LET off    == SelectSeq(dets, SwitchedOff)
        forced == SelectSeq(dets, ForcedAndOn)
    IN  [once_allowlist |-> <<>>,
         forced_masks |->
            [i \in 1..Len(forced) |->
                [start |-> forced[i].start, end |-> forced[i].end,
                 entity_type |-> forced[i].entity_type, label |-> NoLabel,
                 reason |-> "forced:manual_add"]],
         keep_spans |->
            [i \in 1..Len(off) |-> [start |-> off[i].start, end |-> off[i].end]]]

InitKeep ==
    /\ ui = [detections |-> <<>>, use_blackout |-> FALSE, kept |-> {}]
    /\ wpc = [t \in Workers |-> "idle"]
    /\ installed = [t \in Workers |-> NothingInstalled]
    /\ seen = [t \in Workers |-> NothingSeen]
    /\ policy \in { p \in Policies : p.allowlist = <<>> /\ p.mode = "LABEL" }
    /\ runtime = NoRuntime
    /\ text = KeepText
    /\ nlp_available = TRUE
    /\ analyzer_results \in KeepResults
    /\ pc = "idle" /\ report = NoReport /\ label_state = EmptyLabelState
    /\ prev_counters = <<>>
    /\ OnlyGuiRuns

\* Lines 579-602 (694-710): the worker writes the output mode and the
\* overrides of the detection list to the engine and runs it.
EngineRunFromGui ==
    /\ policy' = [policy EXCEPT !.mode = IF ui.use_blackout THEN "BLACK"
                                         ELSE "LABEL"]
    /\ LET c == overrides_of(ui.detections)
       IN  runtime' = RuntimeOverrides(c.once_allowlist, c.forced_masks,
                                       c.keep_spans)
    /\ report' = mask_text_with_report(text, policy', nlp_available,
                                       analyzer_results, runtime',
                                       StableIdState_create)
    /\ label_state' = report'.state
    /\ prev_counters' = label_state.counters
    /\ pc' = "done"
    /\ UNCHANGED <<text, nlp_available, analyzer_results, wpc, installed, seen>>
    /\ OnlyGuiChanges

\* One more run counted for every keep decision in force.
CountRun(kept) ==
    { [k EXCEPT !.runs = Min(MaxKeepRuns, k.runs + 1)] : k \in kept }

\* Lines 549-656, _run, _rerun and _execute: the analysis of the document and every re-run
\* on the stored text (the model keeps one text, so the two differ in
\* nothing but the detection list they start from); apply(), line 640,
\* replaces the detection list by the one built from the payload.
Execute ==
    /\ pc \in {"idle", "done"}
    /\ EngineRunFromGui
    /\ ui' = [ui EXCEPT !.detections = build_detections_from_payload(report'.hits),
                        !.kept = CountRun(ui.kept)]

\* Lines 658-791: the save runs the pipeline with the overrides of the
\* detection list; done() leaves the list as it is.
Save ==
    /\ pc = "done"
    /\ EngineRunFromGui
    /\ ui' = [ui EXCEPT !.kept = CountRun(ui.kept)]

GuiEdits ==
    /\ UNCHANGED <<maskVars, wpc, installed, seen>>
    /\ OnlyGuiChanges

\* Lines 930-941: KEEP_ONCE on a detection of the list.
KeepOnce ==
    /\ pc = "done"
    /\ \E i \in 1..Len(ui.detections) :
          /\ ui.detections[i].enabled
          /\ ui' = [ui EXCEPT !.detections[i].enabled = FALSE,
                              !.kept = @ \cup { [start |-> ui.detections[i].start,
                                                 end   |-> ui.detections[i].end,
                                                 runs  |-> 0] }]
    /\ GuiEdits

\* Lines 211-213: the switch of a detection of the list is turned on again.
EnableAgain ==
    /\ pc = "done"
    /\ \E i \in 1..Len(ui.detections) :
          /\ ~ui.detections[i].enabled
          /\ ui' = [ui EXCEPT !.detections[i].enabled = TRUE,
                              !.kept = { k \in @ :
                                           ~(k.start = ui.detections[i].start
                                             /\ k.end = ui.detections[i].end) }]
    /\ GuiEdits

NextKeep ==
    \/ Execute
    \/ Save
    \/ KeepOnce
    \/ EnableAgain

SpecKeep == InitKeep /\ [][NextKeep]_vars

(***************************************************************************)
(* Claims about keep decisions.                                            *)
(***************************************************************************)
\* The range is unmasked in the result of the last run and was passed to
\* the engine as a keep span.
KeptInLastRun(k) ==
    /\ \A i \in 1..Len(Hits) :
          Masked(Hits[i]) => ~(Hits[i].start < k.end /\ Hits[i].end > k.start)
    /\ \E j \in 1..Len(runtime.keep_spans) :
          runtime.keep_spans[j].start = k.start
          /\ runtime.keep_spans[j].end = k.end

\* C29: once the user has switched a detection off, its range is unmasked
\* in the result of every later re-run and save, for any number of them,
\* until the user switches it on again, and the keep span is passed to the
\* engine on each of those runs.
C29_KeepSurvivesEveryRerun ==
    Done => \A k \in ui.kept : k.runs >= 1 => KeptInLastRun(k)

\* What holds: the same for the first run after the decision.
C29_KeepSurvivesNextRun ==
    Done => \A k \in ui.kept : k.runs = 1 => KeptInLastRun(k)

\* The first run after a keep decision.
C29_KeptOnce ==
    /\ Done
    /\ \E k \in ui.kept : k.runs = 1 /\ KeptInLastRun(k)

\* The second run after a keep decision: the range is masked again and the
\* detection is back on the list, switched on.
C29_KeepLostOnSecondRun ==
    /\ Done
    /\ \E k \in ui.kept :
          /\ k.runs = 2
          /\ runtime.keep_spans = <<>>
          /\ \E i \in 1..Len(Hits) :
                Masked(Hits[i]) /\ Hits[i].start = k.start /\ Hits[i].end = k.end

-----------------------------------------------------------------------------
(* engine/masking_engine.py: _split_into_chunks, one iteration of its loop *)
(* at a time.  split_pos is the loop's pos; the loop is sequential code,   *)
(* so an iteration that can run does run.                                  *)

\* The largest overlap given to the loop; it reaches past MaxChunkSize.
MaxLoopOverlap == 4

InitSplitLoop ==
    /\ big_text \in BigTexts
    /\ chunk_size \in 1..MaxChunkSize
    /\ overlap \in 0..MaxLoopOverlap
    /\ split_pos = 0
    /\ chunks = <<>> /\ window = 0 /\ detector_log = <<>>
    /\ all_results = <<>> /\ deduped = <<>>
    /\ chunk_pc = "off"
    /\ OnlyChunksRun

OnlyLoopChanges ==
    /\ UNCHANGED <<big_text, chunk_size, overlap, window, detector_log,
                   all_results, deduped>>
    /\ OnlyChunksChange

\* Lines 186-187.
ReturnWhole ==
    /\ chunk_pc = "off"
    /\ Len(big_text) <= chunk_size
    /\ chunks' = << [offset |-> 0, text |-> big_text] >>
    /\ chunk_pc' = "split"
    /\ UNCHANGED split_pos
    /\ OnlyLoopChanges

\* Lines 189-191.
EnterLoop ==
    /\ chunk_pc = "off"
    /\ Len(big_text) > chunk_size
    /\ chunks' = <<>>
    /\ split_pos' = 0
    /\ chunk_pc' = "loop"
    /\ OnlyLoopChanges

\* Lines 193-209: one iteration.
AppendWindow ==
    /\ chunk_pc = "loop"
    /\ split_pos < Len(big_text)
    /\ LET end == chunk_end(big_text, chunk_size, split_pos)
       IN  /\ chunks' = Append(chunks, [offset |-> split_pos,
                                        text |-> Slice(big_text, split_pos, end)])
           /\ split_pos' = next_pos(split_pos, end, overlap)
    /\ UNCHANGED chunk_pc
    /\ OnlyLoopChanges

\* Lines 193 and 211: the loop condition fails and the list is returned.
ReturnChunks ==
    /\ chunk_pc = "loop"
    /\ split_pos >= Len(big_text)
    /\ chunk_pc' = "split"
    /\ UNCHANGED <<chunks, split_pos>>
    /\ OnlyLoopChanges

NextSplitLoop ==
    \/ ReturnWhole
    \/ EnterLoop
    \/ AppendWindow
    \/ ReturnChunks

SpecSplitLoop ==
    InitSplitLoop /\ [][NextSplitLoop]_vars /\ WF_vars(NextSplitLoop)

(***************************************************************************)
(* Claims about the loop of _split_into_chunks.                            *)
(***************************************************************************)
\* An iteration moves the window start forward, and never past the end of
\* the text.
StrictlyForward ==
    (chunk_pc = "loop" /\ chunk_pc' = "loop")
        => (split_pos < split_pos' /\ split_pos' <= Len(big_text))

\* C30: _split_into_chunks terminates for every text, every chunk_size >= 1
\* and every overlap >= 0, also when overlap >= chunk_size: every iteration
\* of the loop strictly increases the window start, so the loop is left
\* after at most len(text) windows and the function returns.
C30_SplitLoopTerminates ==
    /\ [][StrictlyForward]_vars
    /\ [](Len(chunks) <= Max(1, Len(big_text)))
    /\ <>(chunk_pc = "split")

\* The loop has returned after several windows with an overlap no smaller
\* than chunk_size.
C30_ReturnedWithLargeOverlap ==
    /\ chunk_pc = "split"
    /\ overlap >= chunk_size
    /\ Len(chunks) >= 3
    /\ split_pos = Len(big_text)

====
